---- MODULE Spec2Model ----
(***************************************************************************)
(* A model of the thor compiler front end and code generator:              *)
(*   src/src/parser.rs            Parser  (tokens -> AST)                  *)
(*   src/src/compiler/codegen.rs  Codegen (AST -> LLVM IR)                 *)
(* Tokens, AST nodes, types and values are tagged tuples whose first       *)
(* element is the variant name of the Rust enum.                           *)
(***************************************************************************)
EXTENDS Naturals, Sequences, FiniteSets, TLC

VARIABLES tokens, parser, ast, pc, input, codegen, value

vars == <<tokens, parser, ast, pc, input, codegen, value>>

(***************************************************************************)
(* Token (crate::Token, used unqualified in parser.rs through              *)
(* `use Token::*`).                                                        *)
(***************************************************************************)
Int(v) == <<"Int", v>>
Float(v) == <<"Float", v>>
Bool(v) == <<"Bool", v>>
Str(v) == <<"Str", v>>
Char(v) == <<"Char", v>>
Ty(literal) == <<"Ty", literal>>
Identifier(name) == <<"Identifier", name>>
\* The variants without a payload: Token.If is Token::If.
Token ==
    [Newline |-> <<"Newline">>, EOF |-> <<"EOF">>, Let |-> <<"Let">>,
     Return |-> <<"Return">>, If |-> <<"If">>, Else |-> <<"Else">>,
     While |-> <<"While">>, For |-> <<"For">>, In |-> <<"In">>,
     Fn |-> <<"Fn">>, LParen |-> <<"LParen">>, RParen |-> <<"RParen">>,
     LBracket |-> <<"LBracket">>, RBracket |-> <<"RBracket">>,
     LBrace |-> <<"LBrace">>, RBrace |-> <<"RBrace">>, Comma |-> <<"Comma">>,
     Colon |-> <<"Colon">>, Eq |-> <<"Eq">>, AddEq |-> <<"AddEq">>,
     SubEq |-> <<"SubEq">>, MulEq |-> <<"MulEq">>, DivEq |-> <<"DivEq">>,
     RemEq |-> <<"RemEq">>, Or |-> <<"Or">>, And |-> <<"And">>,
     Not |-> <<"Not">>, EqEq |-> <<"EqEq">>, Neq |-> <<"Neq">>,
     Lt |-> <<"Lt">>, Lte |-> <<"Lte">>, Gt |-> <<"Gt">>, Gte |-> <<"Gte">>,
     Add |-> <<"Add">>, Sub |-> <<"Sub">>, Mul |-> <<"Mul">>,
     Div |-> <<"Div">>, Rem |-> <<"Rem">>]

(***************************************************************************)
(* Type (crate::Type) and the AST (crate::Node).                           *)
(***************************************************************************)
Type_Array(literal, size) == <<"Array", literal, size>>
Type_Scalar(literal) == <<literal>>
Type_Void == <<"Void">>

None == <<"None">>
Some(x) == <<"Some", x>>

Node_Int(v) == <<"Int", v>>
Node_Float(v) == <<"Float", v>>
Node_Bool(v) == <<"Bool", v>>
Node_Str(v) == <<"Str", v>>
Node_Char(v) == <<"Char", v>>
Node_Array(nodes) == <<"Array", nodes>>
Node_Identifier(name) == <<"Identifier", name>>
Node_Type(ty) == <<"Type", ty>>
Node_Cast(ty, node) == <<"Cast", ty, node>>
Node_Unary(op, node) == <<"Unary", op, node>>
Node_Binary(left, op, right) == <<"Binary", left, op, right>>
Node_IdentifierOp(target, op, node) == <<"IdentifierOp", target, op, node>>
Node_Index(node, index) == <<"Index", node, index>>
Node_Let(name, node) == <<"Let", name, node>>
Node_If(condition, body, else_case) == <<"If", condition, body, else_case>>
Node_While(condition, body) == <<"While", condition, body>>
Node_For(name, iterable, body) == <<"For", name, iterable, body>>
Node_Fn(name, args, return_type, body) == <<"Fn", name, args, return_type, body>>
Node_Return(node) == <<"Return", node>>
Node_Call(name, args) == <<"Call", name, args>>
Node_Statements(nodes) == <<"Statements", nodes>>
Node_EOF == <<"EOF">>

(***************************************************************************)
(* Parser.  The parser state is the struct {tokens, index, token}; `index` *)
(* is 0-based as in the source, so tokens[index] of the source is          *)
(* p.tokens[p.index + 1] here.  `underflow` records a `usize` underflow of *)
(* `index -= 2`; `log` is a history of the returns of if_expr.  `loops`    *)
(* holds, for each loop of statements, list and fn_expr that is running,   *)
(* index + 1 at the last evaluation of its head (0 before the first), and  *)
(* `stalled` records that a head was evaluated again with the cursor no    *)
(* further than the time before.                                           *)
(***************************************************************************)
new(toks) ==
    [tokens |-> toks, index |-> 0, token |-> toks[1],
     underflow |-> FALSE, log |-> <<>>, loops |-> <<>>, stalled |-> FALSE]

\* A loop is entered, its head is evaluated, and it is left.
loop_enter(p) == [p EXCEPT !.loops = Append(@, 0)]
loop_head(p) ==
    [p EXCEPT !.loops[Len(p.loops)] = p.index + 1,
              !.stalled = @ \/ p.index + 1 <= p.loops[Len(p.loops)]]
loop_leave(p) == [p EXCEPT !.loops = SubSeq(@, 1, Len(@) - 1)]

advance(p) ==
    LET i == p.index + 1
    IN  [p EXCEPT !.index = i,
                  !.token = IF i < Len(p.tokens) THEN p.tokens[i + 1] ELSE Token.EOF]

\* back rewinding by one instead of two: after its advance the cursor has not
\* moved.
back_by_one(p) == advance([p EXCEPT !.index = p.index - 1])

\* back moving the index one token back without reading the token again.
back_stale_token(p) == [p EXCEPT !.index = p.index - 1]

\* `index -= 2` underflows when index < 2; if_expr calls back after its
\* condition and body only, where index >= 3.
back(p) ==
    IF p.index < 2
    THEN [p EXCEPT !.underflow = TRUE, !.index = 0, !.token = Token.EOF]
    ELSE advance([p EXCEPT !.index = p.index - 2])

RECURSIVE skip_newlines_from(_, _)
skip_newlines_from(p, newlines) ==
    IF p.token = Token.Newline
    THEN skip_newlines_from(advance(p), newlines + 1)
    ELSE [p |-> p, newlines |-> newlines]

skip_newlines(p) == skip_newlines_from(p, 0)

\* A parse function returns the parser state it leaves and its node, or a panic.
Ok(p, node) == [ok |-> TRUE, p |-> p, node |-> node]
Panic(p, msg) == [ok |-> FALSE, p |-> p, node |-> <<"panic", msg>>]

(***************************************************************************)
(* The parse functions.  A call whose result the caller goes on to use is  *)
(* passed to an operator that holds the rest of the caller, so that each   *)
(* result is computed once.                                                *)
(***************************************************************************)
RECURSIVE statements(_), statements_loop(_, _, _), statement(_), expr(_),
          or_expr(_), and_expr(_), not_expr(_), comp_expr(_), arith_expr(_),
          term(_), factor(_), call(_), atom(_), array_expr(_), if_expr(_),
          else_expr(_), while_expr(_), for_expr(_), fn_expr(_),
          fn_expr_args(_, _), list(_, _), list_loop(_, _, _), block(_),
          index(_)

\* `Node::X(.., Box::new(self.f()))`: the node around the result r of the call.
mk_Return(r) == IF ~r.ok THEN r ELSE Ok(r.p, Node_Return(r.node))
mk_Let(name, r) == IF ~r.ok THEN r ELSE Ok(r.p, Node_Let(name, r.node))
mk_Unary(op, r) == IF ~r.ok THEN r ELSE Ok(r.p, Node_Unary(op, r.node))
mk_Binary(left, op, r) == IF ~r.ok THEN r ELSE Ok(r.p, Node_Binary(left, op, r.node))
mk_IdentifierOp(target, op, r) ==
    IF ~r.ok THEN r ELSE Ok(r.p, Node_IdentifierOp(target, op, r.node))
mk_Index(node, r) == IF ~r.ok THEN r ELSE Ok(r.p, Node_Index(node, r.node))
mk_Call(name, r) == IF ~r.ok THEN r ELSE Ok(r.p, Node_Call(name, r.node))
mk_Array(r) == IF ~r.ok THEN r ELSE Ok(r.p, Node_Array(r.node))
mk_While(condition, r) ==
    IF ~r.ok THEN r ELSE Ok(r.p, Node_While(condition, r.node))
mk_For(name, iterable, r) ==
    IF ~r.ok THEN r ELSE Ok(r.p, Node_For(name, iterable, r.node))
mk_Fn(name, args, return_type, r) ==
    IF ~r.ok THEN r ELSE Ok(r.p, Node_Fn(name, args, return_type, r.node))

\* After an inner expression r: the closing token must follow, and is consumed.
expect_close(r, close, msg) ==
    IF ~r.ok THEN r
    ELSE IF r.p.token # close THEN Panic(r.p, msg)
    ELSE Ok(advance(r.p), r.node)

parse(p) == statements(p)

\* statements, after its first statement r.
statements_first(r) ==
    IF ~r.ok THEN r ELSE statements_loop(loop_enter(r.p), <<r.node>>, TRUE)

statements(p) == statements_first(statement(skip_newlines(p).p))

\* The end of one iteration of the loop of statements: the statement r.
statements_push(r, nodes) ==
    IF ~r.ok THEN r
    ELSE IF r.node = Node_EOF THEN statements_loop(r.p, nodes, FALSE)
    ELSE statements_loop(r.p, Append(nodes, r.node), TRUE)

\* The loop of statements ending on a single Newline as it does on none.
statements_iteration_one_newline(s, nodes, more_statements) ==
    IF (IF s.newlines <= 1 THEN TRUE ELSE ~more_statements) \/ s.p.token = Token.RBrace
    THEN Ok(loop_leave(s.p), Node_Statements(nodes))
    ELSE statements_push(statement(s.p), nodes)

\* The loop of statements going on without a Newline between two statements.
statements_iteration_no_newline(s, nodes, more_statements) ==
    IF ~more_statements \/ s.p.token = Token.RBrace
    THEN Ok(loop_leave(s.p), Node_Statements(nodes))
    ELSE statements_push(statement(s.p), nodes)

\* One iteration of the loop of statements, after its skip_newlines s.
statements_iteration(s, nodes, more_statements) ==
    IF (IF s.newlines = 0 THEN TRUE ELSE ~more_statements) \/ s.p.token = Token.RBrace
    THEN Ok(loop_leave(s.p), Node_Statements(nodes))
    ELSE statements_push(statement(s.p), nodes)

statements_loop(p, nodes, more_statements) ==
    statements_iteration(skip_newlines(loop_head(p)), nodes, more_statements)

\* The Let arm of statement, after `let` and after the identifier.
statement_let_eq(name, p) ==
    IF p.token # Token.Eq THEN Panic(p, "Expected '='")
    ELSE mk_Let(name, expr(advance(p)))

statement_let(p) ==
    IF p.token[1] # "Identifier" THEN Panic(p, "Expected identifier")
    ELSE statement_let_eq(p.token[2], advance(p))

statement(p) ==
    IF p.token = Token.Let THEN statement_let(advance(p))
    ELSE IF p.token = Token.Return THEN mk_Return(expr(advance(p)))
    ELSE expr(p)

\* The operator of an assignment token, as the macro `expr!` pairs them.
assign_op(token) ==
    CASE token = Token.Eq -> "Eq"
      [] token = Token.AddEq -> "Add"
      [] token = Token.SubEq -> "Sub"
      [] token = Token.MulEq -> "Mul"
      [] token = Token.DivEq -> "Div"
      [] token = Token.RemEq -> "Rem"
      [] OTHER -> "none"

expr_rest(e) ==
    IF ~e.ok THEN e
    ELSE IF assign_op(e.p.token) # "none"
    THEN mk_IdentifierOp(e.node, assign_op(e.p.token), or_expr(advance(e.p)))
    ELSE e

expr(p) == expr_rest(or_expr(p))

or_expr_rest(result) ==
    IF ~result.ok THEN result
    ELSE IF result.p.token = Token.Or
    THEN mk_Binary(result.node, "Or", or_expr(advance(result.p)))
    ELSE result

or_expr(p) == or_expr_rest(and_expr(p))

and_expr_rest(result) ==
    IF ~result.ok THEN result
    ELSE IF result.p.token = Token.And
    THEN mk_Binary(result.node, "And", and_expr(advance(result.p)))
    ELSE result

and_expr(p) == and_expr_rest(not_expr(p))

not_expr(p) ==
    IF p.token = Token.Not THEN mk_Unary("Not", not_expr(advance(p)))
    ELSE comp_expr(p)

comp_expr_rest(result) ==
    IF ~result.ok THEN result
    ELSE IF result.p.token \in {Token.EqEq, Token.Neq, Token.Lt, Token.Lte, Token.Gt, Token.Gte}
    THEN mk_Binary(result.node, result.p.token[1], comp_expr(advance(result.p)))
    ELSE result

comp_expr(p) == comp_expr_rest(arith_expr(p))

\* arith_expr taking a term, not an arith_expr, for its right operand.
arith_expr_rest_term(result) ==
    IF ~result.ok THEN result
    ELSE IF result.p.token \in {Token.Add, Token.Sub}
    THEN mk_Binary(result.node, result.p.token[1], term(advance(result.p)))
    ELSE result

arith_expr_rest(result) ==
    IF ~result.ok THEN result
    ELSE IF result.p.token \in {Token.Add, Token.Sub}
    THEN mk_Binary(result.node, result.p.token[1], arith_expr(advance(result.p)))
    ELSE result

arith_expr(p) == arith_expr_rest(term(p))

term_rest(result) ==
    IF ~result.ok THEN result
    ELSE IF result.p.token \in {Token.Mul, Token.Div, Token.Rem}
    THEN mk_Binary(result.node, result.p.token[1], term(advance(result.p)))
    ELSE result

term(p) == term_rest(factor(p))

factor(p) ==
    IF p.token = Token.Add THEN mk_Unary("Pos", factor(advance(p)))
    ELSE IF p.token = Token.Sub THEN mk_Unary("Neg", factor(advance(p)))
    ELSE call(p)

\* The Type arm of call: Cast of the single expression e.
call_cast(literal, e) ==
    IF ~e.ok THEN e
    ELSE IF e.p.token # Token.RParen THEN Panic(e.p, "expected ')'")
    ELSE Ok(advance(e.p), Node_Cast(literal, e.node))

\* call without the `_ => panic` arm: any other atom is returned as it is.
call_rest_lenient(result) ==
    IF ~result.ok THEN result
    ELSE IF result.p.token = Token.LParen
    THEN IF result.node[1] = "Identifier"
         THEN mk_Call(result.node[2], list(advance(result.p), Token.RParen))
         ELSE IF result.node[1] = "Type"
         THEN call_cast(result.node[2], expr(advance(result.p)))
         ELSE Ok(advance(result.p), result.node)
    ELSE result

call_rest(result) ==
    IF ~result.ok THEN result
    ELSE IF result.p.token = Token.LParen
    THEN IF result.node[1] = "Identifier"
         THEN mk_Call(result.node[2], list(advance(result.p), Token.RParen))
         ELSE IF result.node[1] = "Type"
         THEN call_cast(result.node[2], expr(advance(result.p)))
         ELSE Panic(advance(result.p), "expected identifier or type")
    ELSE result

call(p) == call_rest(atom(p))

\* The Ty arm of atom, after `[`, after the size, and after the type keyword.
atom_array_close(literal, size, p) ==
    IF p.token # Token.RBracket THEN Panic(p, "expected ']'")
    ELSE Ok(advance(p), Node_Type(Type_Array(literal, size)))

atom_array_size(literal, p) ==
    IF p.token[1] # "Int" THEN Panic(p, "array size must be an int")
    ELSE atom_array_close(literal, p.token[2], advance(p))

atom_type(literal, p) ==
    IF p.token = Token.LBracket THEN atom_array_size(literal, advance(p))
    ELSE Ok(p, Node_Type(Type_Scalar(literal)))

\* The LParen arm with arith_expr for its inner expression.
atom_paren_arith(p) == expect_close(arith_expr(advance(p)), Token.RParen, "expected ')'")

\* The LParen arm of atom: the inner expression is the result, unchanged.
atom_paren(p) == expect_close(expr(advance(p)), Token.RParen, "expected ')'")

\* The first `match` of atom: the node of the atom proper.
atom_result(p) ==
    CASE p.token[1] = "Int" -> Ok(advance(p), Node_Int(p.token[2]))
      [] p.token[1] = "Float" -> Ok(advance(p), Node_Float(p.token[2]))
      [] p.token[1] = "Bool" -> Ok(advance(p), Node_Bool(p.token[2]))
      [] p.token[1] = "Str" -> Ok(advance(p), Node_Str(p.token[2]))
      [] p.token[1] = "Char" -> Ok(advance(p), Node_Char(p.token[2]))
      [] p.token[1] = "Ty" -> atom_type(p.token[2], advance(p))
      [] p.token[1] = "Identifier" -> Ok(advance(p), Node_Identifier(p.token[2]))
      [] p.token = Token.LParen -> atom_paren(p)
      [] p.token = Token.LBracket -> array_expr(p)
      [] p.token = Token.If -> if_expr(p)
      [] p.token = Token.While -> while_expr(p)
      [] p.token = Token.For -> for_expr(p)
      [] p.token = Token.Fn -> fn_expr(p)
      [] p.token = Token.EOF -> Ok(p, Node_EOF)
      [] OTHER -> Panic(p, "expected int, float, bool, str, type, identifier, ...")

\* The second `match` of atom: the postfix index.
atom_rest(result) ==
    IF ~result.ok THEN result
    ELSE IF result.p.token = Token.LBracket
    THEN mk_Index(result.node, index(result.p))
    ELSE result

atom(p) == atom_rest(atom_result(p))

array_expr(p) ==
    IF p.token # Token.LBracket THEN Panic(p, "expected '['")
    ELSE mk_Array(list(advance(p), Token.RBracket))

\* `match self.token { Colon => .., LBrace => .., _ => panic }`: the body of an
\* if, a while or a for.
body_of(p) ==
    IF p.token = Token.Colon THEN statement(advance(p))
    ELSE IF p.token = Token.LBrace THEN block(p)
    ELSE Panic(p, "expected ':' or '{'")

\* if_expr returning at q: the history entry of the return is appended.
if_return(start, body, s, q, node) ==
    Ok([q EXCEPT !.log = Append(@,
            [start |-> start, after_body |-> body.p.index,
             newlines |-> s.newlines, else_found |-> (s.p.token = Token.Else),
             index |-> q.index, token |-> q.token])],
       node)

\* if_expr with an else arm e.
if_some(start, condition, body, s, e) ==
    IF ~e.ok THEN e
    ELSE if_return(start, body, s, e.p, Node_If(condition, body.node, Some(e.node)))

\* if_expr looking for `else` on the line of the body only.
if_else_case_same_line(start, condition, body, s) ==
    IF s.p.token = Token.Else /\ s.newlines = 0
    THEN if_some(start, condition, body, s, else_expr(s.p))
    ELSE if_return(start, body, s, IF s.newlines > 0 THEN back(s.p) ELSE s.p,
                   Node_If(condition, body.node, None))

\* if_expr after skip_newlines s: the else arm, or the rewind.
if_else_case(start, condition, body, s) ==
    IF s.p.token = Token.Else
    THEN if_some(start, condition, body, s, else_expr(s.p))
    ELSE if_return(start, body, s, IF s.newlines > 0 THEN back(s.p) ELSE s.p,
                   Node_If(condition, body.node, None))

\* if_expr after its body.
if_after_body(start, condition, body) ==
    IF ~body.ok THEN body
    ELSE if_else_case(start, condition, body, skip_newlines(body.p))

\* if_expr after its condition.
if_after_condition(start, condition) ==
    IF ~condition.ok THEN condition
    ELSE if_after_body(start, condition.node, body_of(condition.p))

if_expr(p) ==
    IF p.token # Token.If THEN Panic(p, "expected 'if'")
    ELSE if_after_condition(p.index, expr(advance(p)))

\* else_expr after `else`.
else_arm(p) ==
    IF p.token = Token.Colon THEN statement(advance(p))
    ELSE IF p.token = Token.LBrace THEN block(p)
    ELSE IF p.token = Token.If THEN if_expr(p)
    ELSE Panic(p, "expected ':', '{', or 'if'")

else_expr(p) ==
    IF p.token # Token.Else THEN Panic(p, "expected 'else'")
    ELSE else_arm(advance(p))

while_after_condition(condition) ==
    IF ~condition.ok THEN condition
    ELSE mk_While(condition.node, body_of(condition.p))

while_expr(p) ==
    IF p.token # Token.While THEN Panic(p, "expected 'while'")
    ELSE while_after_condition(expr(advance(p)))

for_after_iterable(name, iterable) ==
    IF ~iterable.ok THEN iterable
    ELSE mk_For(name, iterable.node, body_of(iterable.p))

for_after_identifier(name, p) ==
    IF p.token # Token.In THEN Panic(p, "expected 'in'")
    ELSE for_after_iterable(name, expr(advance(p)))

for_after_for(p) ==
    IF p.token[1] # "Identifier" THEN Panic(p, "expected identifier")
    ELSE for_after_identifier(p.token[2], advance(p))

for_expr(p) ==
    IF p.token # Token.For THEN Panic(p, "expected 'for'")
    ELSE for_after_for(advance(p))

\* One parameter of fn_expr, after its type ty.
fn_expr_arg(name, ty, args) ==
    IF ~ty.ok THEN ty
    ELSE IF ty.node[1] # "Type" THEN Panic(ty.p, "expected a type")
    ELSE IF ty.p.token = Token.Comma
    THEN fn_expr_args(advance(ty.p), Append(args, <<name, ty.node[2]>>))
    ELSE IF ty.p.token = Token.RParen
    THEN fn_expr_args(ty.p, Append(args, <<name, ty.node[2]>>))
    ELSE Panic(ty.p, "expected ',' or ')'")

fn_expr_arg_colon(name, p, args) ==
    IF p.token # Token.Colon THEN Panic(p, "expected ':'")
    ELSE fn_expr_arg(name, atom(advance(p)), args)

\* The `while self.token != RParen` loop of fn_expr, with its local `args`.
fn_expr_args(p, args) ==
    IF p.token # Token.RParen
    THEN IF p.token[1] # "Identifier" THEN Panic(loop_head(p), "expected identifier")
         ELSE fn_expr_arg_colon(p.token[2], advance(loop_head(p)), args)
    ELSE Ok(loop_leave(p), args)

\* fn_expr after the return type t (the type, or Void when none is given).
fn_expr_body(name, args, t) ==
    IF ~t.ok THEN t
    ELSE IF t.p.token # Token.LBrace THEN Panic(t.p, "expected '{'")
    ELSE mk_Fn(name, args, t.node, block(t.p))

\* `match self.atom() { Node::Type(ty) => ty, _ => panic }`.
expect_type(t) ==
    IF ~t.ok THEN t
    ELSE IF t.node[1] # "Type" THEN Panic(t.p, "expected type")
    ELSE Ok(t.p, t.node[2])

\* fn_expr after the closing `)` of its parameters.
fn_expr_return_type(name, args, p) ==
    fn_expr_body(name, args,
                 IF p.token = Token.Colon THEN expect_type(atom(advance(p)))
                 ELSE Ok(p, Type_Void))

fn_expr_after_args(name, args) ==
    IF ~args.ok THEN args
    ELSE fn_expr_return_type(name, args.node, advance(args.p))

fn_expr_lparen(name, p) ==
    IF p.token # Token.LParen THEN Panic(p, "expected '('")
    ELSE fn_expr_after_args(name, fn_expr_args(loop_enter(advance(p)), <<>>))

fn_expr_name(p) ==
    IF p.token[1] # "Identifier" THEN Panic(p, "expected identifier")
    ELSE fn_expr_lparen(p.token[2], advance(p))

fn_expr(p) ==
    IF p.token # Token.Fn THEN Panic(p, "expected 'fn'")
    ELSE fn_expr_name(advance(p))

list(p, end) == list_loop(loop_enter(p), end, <<>>)

\* One iteration of the loop of list that rejects a comma directly before the
\* terminator.
list_push_no_trailing_comma(r, end, nodes) ==
    IF ~r.ok THEN r
    ELSE IF r.p.token = Token.Comma
    THEN IF advance(r.p).token = end
         THEN Panic(advance(r.p), "expected an expression")
         ELSE list_loop(advance(r.p), end, Append(nodes, r.node))
    ELSE IF r.p.token = end
    THEN list_loop(r.p, end, Append(nodes, r.node))
    ELSE Panic(r.p, "expected ',' or the terminator")

\* One iteration of the loop of list, after its expression r.
list_push(r, end, nodes) ==
    IF ~r.ok THEN r
    ELSE IF r.p.token = Token.Comma
    THEN list_loop(advance(r.p), end, Append(nodes, r.node))
    ELSE IF r.p.token = end
    THEN list_loop(r.p, end, Append(nodes, r.node))
    ELSE Panic(r.p, "expected ',' or the terminator")

\* The `while self.token != end` loop of list, with its local `nodes`.
list_loop(p, end, nodes) ==
    IF p.token # end THEN list_push(expr(loop_head(p)), end, nodes)
    ELSE Ok(advance(loop_leave(p)), nodes)

block(p) ==
    IF p.token # Token.LBrace THEN Panic(p, "expected '{'")
    ELSE expect_close(statements(advance(p)), Token.RBrace, "expected '}'")

index(p) ==
    IF p.token # Token.LBracket THEN Panic(p, "expected '{'")
    ELSE expect_close(expr(advance(p)), Token.RBracket, "expected ']'")

(***************************************************************************)
(* Codegen.  An SSA operand is <<"const", llvm type, value>> or            *)
(* <<"reg", llvm type, id>>; a Value is a tag with its operand.  The       *)
(* module under construction is the sequence `blocks` of basic blocks,     *)
(* each with the function it was appended to, its name and the             *)
(* instructions built into it; `builder` is the block the builder is       *)
(* positioned at; `scope` is the parent chain of Scope frames, innermost   *)
(* last; `next` numbers the registers.                                     *)
(***************************************************************************)
const(ty, v) == <<"const", ty, v>>
reg(ty, id) == <<"reg", ty, id>>

Value_Int(v) == <<"Int", v>>
Value_Float(v) == <<"Float", v>>
Value_Bool(v) == <<"Bool", v>>
Value_Char(v) == <<"Char", v>>
Value_Str(v) == <<"Str", v>>
Value_Array(v, ty, size) == <<"Array", v, ty, size>>
Value_Void == <<"Void">>

int_type == "i32"
float_type == "f64"
bool_type == "i1"
char_type == "i8"
str_type == "ptr"

\* TypeLiteral -> the LLVM type of a value of that tag.
llvm_type(literal) ==
    CASE literal = "Int" -> int_type
      [] literal = "Float" -> float_type
      [] literal = "Bool" -> bool_type
      [] literal = "Char" -> char_type
      [] OTHER -> str_type

\* Value::get_value and Value::get_type.
get_value(v) == v[2]
get_type(v) == llvm_type(v[1])

\* The Type a Value is recorded with in a Scope.
type_of(v) == IF v[1] = "Array" THEN Type_Array(v[3], v[4]) ELSE <<v[1]>>

Scope_new == [variables |-> <<>>, functions |-> <<>>]

Function_new(name, arg_types, return_type, user) ==
    [name |-> name, arg_types |-> arg_types, return_type |-> return_type,
     user |-> user]

\* Codegen::new: main with its body block, the builder at its end, print declared.
Codegen_new ==
    [blocks |-> <<[function |-> "main", name |-> "body", insts |-> <<>>]>>,
     builder |-> 1,
     function |-> "main",
     scope |-> <<[variables |-> <<>>,
                  functions |-> << <<"print",
                       Function_new("printf", <<>>, <<"Int">>, FALSE)>> >>]>>,
     next |-> 1]

\* builder.build_*: one instruction at the end of the builder's block.
build(cg, inst) ==
    [cg EXCEPT !.blocks[cg.builder].insts = Append(@, inst)]

\* A build_* that defines a register of type ty: the register and the new state.
build_reg(cg, ty, opcode, operands) ==
    [cg |-> [build(cg, <<opcode, reg(ty, cg.next)>> \o operands)
                 EXCEPT !.next = cg.next + 1],
     reg |-> reg(ty, cg.next)]

append_basic_block(cg, function, name) ==
    [cg EXCEPT !.blocks = Append(@, [function |-> function, name |-> name,
                                     insts |-> <<>>])]

position_at_end(cg, bb) == [cg EXCEPT !.builder = bb]

\* A visit returns the state it leaves and its Value, or a panic.
VOk(cg, v) == [ok |-> TRUE, cg |-> cg, value |-> v]
VPanic(cg, msg) == [ok |-> FALSE, cg |-> cg, value |-> <<"panic", msg>>]

(***************************************************************************)
(* Scope: the association lists of one frame are sequences of              *)
(* <<name, entry>>; lookup walks the chain from the innermost frame.       *)
(***************************************************************************)
RECURSIVE assoc(_, _, _)
assoc(entries, name, i) ==
    IF i = 0 THEN None
    ELSE IF entries[i][1] = name THEN Some(entries[i][2])
    ELSE assoc(entries, name, i - 1)

RECURSIVE lookup_variable(_, _, _)
lookup_variable(scope, name, frame) ==
    IF frame = 0 THEN None
    ELSE LET found == assoc(scope[frame].variables, name,
                            Len(scope[frame].variables))
         IN  IF found # None THEN found
             ELSE lookup_variable(scope, name, frame - 1)

RECURSIVE lookup_function(_, _, _)
lookup_function(scope, name, frame) ==
    IF frame = 0 THEN None
    ELSE LET found == assoc(scope[frame].functions, name,
                            Len(scope[frame].functions))
         IN  IF found # None THEN found
             ELSE lookup_function(scope, name, frame - 1)

\* scope.variables.insert(name, (ptr, ty)) on the innermost frame.
insert_variable(cg, name, ptr, ty) ==
    [cg EXCEPT !.scope[Len(cg.scope)].variables = Append(@, <<name, <<ptr, ty>>>>)]

\* Scope::get: load from the slot; Str and Array slots hold the pointer itself.
Scope_get(cg, name) ==
    LET found == lookup_variable(cg.scope, name, Len(cg.scope))
    IN  IF found = None THEN VPanic(cg, "variable not found")
        ELSE LET ptr == found[2][1]
                 ty == found[2][2]
             IN  IF ty[1] = "Str" THEN VOk(cg, Value_Str(ptr))
                 ELSE IF ty[1] = "Array"
                 THEN VOk(cg, Value_Array(ptr, ty[2], ty[3]))
                 ELSE IF ty[1] = "Void" THEN VPanic(cg, "void variable")
                 ELSE LET l == build_reg(cg, llvm_type(ty[1]), "load", <<ptr>>)
                      IN  VOk(l.cg, <<ty[1], l.reg>>)

\* Scope::get_ptr: the storage pointer of the slot, as <<"ptr", pointer>>.
Scope_get_ptr(cg, name) ==
    LET found == lookup_variable(cg.scope, name, Len(cg.scope))
    IN  IF found = None THEN VPanic(cg, "variable not found")
        ELSE VOk(cg, <<"ptr", found[2][1]>>)

\* Scope::set: store into the slot of an existing name of any ancestor, else
\* allocate a slot in the current scope and store.
Scope_set(cg, name, v) ==
    LET found == lookup_variable(cg.scope, name, Len(cg.scope))
    IN  IF v[1] = "Void" THEN VPanic(cg, "void isn't a valid type")
        ELSE IF found # None
        THEN IF found[2][2] # type_of(v) THEN VPanic(cg, "type mismatch")
             ELSE VOk(build(cg, <<"store", found[2][1], get_value(v)>>), v)
        ELSE IF v[1] \in {"Str", "Array"}
        THEN VOk(insert_variable(cg, name, get_value(v), type_of(v)), v)
        ELSE LET a == build_reg(cg, "ptr", "alloca", <<get_type(v), name>>)
             IN  VOk(insert_variable(build(a.cg, <<"store", a.reg, get_value(v)>>),
                                     name, a.reg, type_of(v)),
                     v)

\* Scope::get_function.
Scope_get_function(cg, name) == lookup_function(cg.scope, name, Len(cg.scope))

(***************************************************************************)
(* Codegen::visit.  `depth` is the number of visit frames on the call      *)
(* stack; a call deeper than StackLimit ends the process (stack overflow). *)
(* As in the parser, the result of a nested visit is passed to the         *)
(* operator that holds the rest of the arm.                                *)
(***************************************************************************)
StackLimit == 10

VOverflow(cg) == [ok |-> FALSE, cg |-> cg, value |-> <<"stack overflow">>]

RECURSIVE visit(_, _, _), visit_Array(_, _, _),
          visit_elements(_, _, _, _, _, _), visit_Cast(_, _, _),
          visit_Unary(_, _, _), visit_Binary(_, _, _), visit_Let(_, _, _),
          visit_IdentifierOp(_, _, _), visit_Index(_, _, _),
          visit_While(_, _, _), visit_If(_, _, _), visit_Fn(_, _, _),
          visit_Return(_, _, _), visit_Call(_, _, _), visit_args(_, _, _, _, _),
          visit_Statements(_, _, _), visit_nodes(_, _, _, _, _)

\* A build_* whose register becomes the operand of a Value of tag `tag`.
emit(cg, tag, ty, opcode, operands) ==
    VOk(build_reg(cg, ty, opcode, operands).cg, <<tag, reg(ty, cg.next)>>)

\* The kind of LLVM value a tag's operand is (into_int_value, into_float_value,
\* into_pointer_value succeed on their own kind only).
value_kind(tag) ==
    CASE tag \in {"Int", "Bool", "Char"} -> "int"
      [] tag = "Float" -> "float"
      [] OTHER -> "pointer"

\* One element of the Array arm, visited as v: `ty` becomes its tag.
visit_element(v, nodes, i, values, depth) ==
    IF ~v.ok THEN v
    ELSE IF v.value[1] \notin {"Int", "Float", "Bool", "Str", "Char"}
    THEN VPanic(v.cg, "invalid array type")
    ELSE visit_elements(v.cg, nodes, i + 1, v.value[1], Append(values, v.value),
                        depth)

\* The `for node in nodes` loop of the Array arm: the element values and the
\* tag of the last element.
visit_elements(cg, nodes, i, ty, values, depth) ==
    IF i > Len(nodes) THEN VOk(cg, <<ty, values>>)
    ELSE visit_element(visit(cg, nodes[i], depth), nodes, i, values, depth)

\* The Array arm after its elements: the constant array, its alloca and store.
array_store(cg, ty, values, size) ==
    IF \E i \in 1..Len(values) : value_kind(values[i][1]) # value_kind(ty)
    THEN VPanic(cg, "into_*_value on a value of another kind")
    ELSE VOk(build(build_reg(cg, "ptr", "array_alloca",
                             <<llvm_type(ty), const(int_type, size)>>).cg,
                   <<"store", reg("ptr", cg.next),
                     const(<<"array", llvm_type(ty), size>>,
                           [i \in 1..Len(values) |-> get_value(values[i])])>>),
             Value_Array(reg("ptr", cg.next), ty, size))

visit_Array_elements(vs, size) ==
    IF ~vs.ok THEN vs ELSE array_store(vs.cg, vs.value[1], vs.value[2], size)

visit_Array(cg, node, depth) ==
    visit_Array_elements(visit_elements(cg, node[2], 1, "Int", <<>>, depth),
                         Len(node[2]))

\* The Cast arm with a Char arm added under Type::Int: a char casts to an int.
cast_char_to_int(cg, ty, tag, x) ==
    IF ty = <<"Int">>
    THEN IF tag \in {"Int", "Bool", "Char"} THEN VOk(cg, Value_Int(x))
         ELSE IF tag = "Float" THEN emit(cg, "Int", int_type, "fptosi", <<x>>)
         ELSE VPanic(cg, "unimplemented")
    ELSE IF ty = <<"Float">>
    THEN IF tag = "Int" THEN emit(cg, "Float", float_type, "sitofp", <<x>>)
         ELSE IF tag = "Float" THEN VOk(cg, Value_Float(x))
         ELSE IF tag = "Bool" THEN emit(cg, "Float", float_type, "uitofp", <<x>>)
         ELSE VPanic(cg, "unimplemented")
    ELSE IF ty = <<"Bool">>
    THEN IF tag \in {"Int", "Bool"} THEN VOk(cg, Value_Bool(x))
         ELSE IF tag = "Float" THEN emit(cg, "Bool", bool_type, "fptoui", <<x>>)
         ELSE VPanic(cg, "unimplemented")
    ELSE IF ty = <<"Str">>
    THEN IF tag = "Str" THEN VOk(cg, Value_Str(x))
         ELSE VPanic(cg, "unimplemented")
    ELSE IF ty = <<"Char">>
    THEN IF tag = "Char" THEN VOk(cg, Value_Char(x))
         ELSE VPanic(cg, "unimplemented")
    ELSE IF ty[1] = "Array" THEN VPanic(cg, "can't cast to an array")
    ELSE VPanic(cg, "can't cast to a void type")

\* The `match ty` of the Cast arm, on the Value <<tag, x>>.
cast(cg, ty, tag, x) ==
    IF ty = <<"Int">>
    THEN IF tag \in {"Int", "Bool"} THEN VOk(cg, Value_Int(x))
         ELSE IF tag = "Float" THEN emit(cg, "Int", int_type, "fptosi", <<x>>)
         ELSE VPanic(cg, "unimplemented")
    ELSE IF ty = <<"Float">>
    THEN IF tag = "Int" THEN emit(cg, "Float", float_type, "sitofp", <<x>>)
         ELSE IF tag = "Float" THEN VOk(cg, Value_Float(x))
         ELSE IF tag = "Bool" THEN emit(cg, "Float", float_type, "uitofp", <<x>>)
         ELSE VPanic(cg, "unimplemented")
    ELSE IF ty = <<"Bool">>
    THEN IF tag \in {"Int", "Bool"} THEN VOk(cg, Value_Bool(x))
         ELSE IF tag = "Float" THEN emit(cg, "Bool", bool_type, "fptoui", <<x>>)
         ELSE VPanic(cg, "unimplemented")
    ELSE IF ty = <<"Str">>
    THEN IF tag = "Str" THEN VOk(cg, Value_Str(x))
         ELSE VPanic(cg, "unimplemented")
    ELSE IF ty = <<"Char">>
    THEN IF tag = "Char" THEN VOk(cg, Value_Char(x))
         ELSE VPanic(cg, "unimplemented")
    ELSE IF ty[1] = "Array" THEN VPanic(cg, "can't cast to an array")
    ELSE VPanic(cg, "can't cast to a void type")

visit_Cast_value(ty, v) ==
    IF ~v.ok THEN v ELSE cast(v.cg, ty, v.value[1], v.value[2])

visit_Cast(cg, node, depth) == visit_Cast_value(node[2], visit(cg, node[3], depth))

\* IntValue::const_neg, FloatValue::const_neg: a constant expression, no
\* instruction is built.
const_neg(operand) == const(operand[2], <<"neg", operand>>)

\* The `match op` of the Unary arm, on the Value <<tag, x>>.
unary(cg, op, tag, x) ==
    IF op = "Pos" THEN VOk(cg, <<tag, x>>)
    ELSE IF op = "Neg"
    THEN IF tag = "Int" THEN VOk(cg, Value_Int(const_neg(x)))
         ELSE IF tag = "Float" THEN VOk(cg, Value_Float(const_neg(x)))
         ELSE VPanic(cg, "unimplemented")
    ELSE IF tag = "Int"
    THEN emit(cg, "Bool", bool_type, "icmp", <<"EQ", x, const(int_type, 0)>>)
    ELSE IF tag = "Float"
    THEN emit(cg, "Bool", bool_type, "fcmp", <<"OEQ", x, const(float_type, 0)>>)
    ELSE IF tag = "Bool"
    THEN emit(cg, "Bool", bool_type, "icmp", <<"EQ", x, const(bool_type, 0)>>)
    ELSE VPanic(cg, "unimplemented")

visit_Unary_value(op, v) ==
    IF ~v.ok THEN v
    ELSE IF op = "Pos" THEN v
    ELSE unary(v.cg, op, v.value[1], v.value[2])

visit_Unary(cg, node, depth) == visit_Unary_value(node[2], visit(cg, node[3], depth))

int_opcode(op) ==
    CASE op = "Add" -> "add" [] op = "Sub" -> "sub" [] op = "Mul" -> "mul"
      [] op = "Div" -> "udiv" [] op = "Rem" -> "urem"

float_opcode(op) ==
    CASE op = "Add" -> "fadd" [] op = "Sub" -> "fsub" [] op = "Mul" -> "fmul"
      [] op = "Div" -> "fdiv" [] op = "Rem" -> "frem"

int_predicate(op) ==
    CASE op = "EqEq" -> "EQ" [] op = "Neq" -> "NE" [] op = "Lt" -> "SLT"
      [] op = "Lte" -> "SLE" [] op = "Gt" -> "SGT" [] op = "Gte" -> "SGE"

float_predicate(op) ==
    CASE op = "EqEq" -> "OEQ" [] op = "Neq" -> "ONE" [] op = "Lt" -> "OLT"
      [] op = "Lte" -> "OLE" [] op = "Gt" -> "OGT" [] op = "Gte" -> "OGE"

\* build_signed_int_to_float of one side, then the float instruction.
widen_left(cg, tag, ty, opcode, pre, l, r) ==
    emit(build_reg(cg, float_type, "sitofp", <<l>>).cg, tag, ty, opcode,
         pre \o <<reg(float_type, cg.next), r>>)

widen_right(cg, tag, ty, opcode, pre, l, r) ==
    emit(build_reg(cg, float_type, "sitofp", <<r>>).cg, tag, ty, opcode,
         pre \o <<l, reg(float_type, cg.next)>>)

\* The `match op` of the Binary arm, on the operands l, r of tags lt, rt.
binary(cg, op, lt, l, rt, r) ==
    IF op \in {"Add", "Sub", "Mul", "Div", "Rem"}
    THEN IF lt = "Int" /\ rt = "Int"
         THEN emit(cg, "Int", int_type, int_opcode(op), <<l, r>>)
         ELSE IF lt = "Int" /\ rt = "Float"
         THEN widen_left(cg, "Float", float_type, float_opcode(op), <<>>, l, r)
         ELSE IF lt = "Float" /\ rt = "Int"
         THEN widen_right(cg, "Float", float_type, float_opcode(op), <<>>, l, r)
         ELSE IF lt = "Float" /\ rt = "Float"
         THEN emit(cg, "Float", float_type, float_opcode(op), <<l, r>>)
         ELSE VPanic(cg, "unimplemented")
    ELSE IF op \in {"And", "Or"}
    THEN IF lt = "Bool" /\ rt = "Bool"
         THEN emit(cg, "Bool", bool_type, IF op = "And" THEN "and" ELSE "or",
                   <<l, r>>)
         ELSE VPanic(cg, "unimplemented")
    ELSE IF lt \in {"Int", "Char"} /\ rt \in {"Int", "Char"}
    THEN emit(cg, "Bool", bool_type, "icmp", <<int_predicate(op), l, r>>)
    ELSE IF lt \in {"Int", "Char"} /\ rt = "Float"
    THEN widen_left(cg, "Bool", bool_type, "fcmp", <<float_predicate(op)>>, l, r)
    ELSE IF lt = "Float" /\ rt = "Int"
    THEN widen_right(cg, "Bool", bool_type, "fcmp", <<float_predicate(op)>>, l, r)
    ELSE IF lt = "Float" /\ rt = "Float"
    THEN emit(cg, "Bool", bool_type, "fcmp", <<float_predicate(op), l, r>>)
    ELSE IF lt = "Bool" /\ rt = "Bool" /\ op = "EqEq"
    THEN emit(build_reg(cg, bool_type, "xor", <<l, r>>).cg, "Bool", bool_type,
              "not", <<reg(bool_type, cg.next)>>)
    ELSE IF lt = "Bool" /\ rt = "Bool" /\ op = "Neq"
    THEN emit(cg, "Bool", bool_type, "xor", <<l, r>>)
    ELSE VPanic(cg, "unimplemented")

visit_Binary_r(op, l_value, r_value) ==
    IF ~r_value.ok THEN r_value
    ELSE binary(r_value.cg, op, l_value[1], l_value[2], r_value.value[1],
                r_value.value[2])

\* The Binary arm with `and` and `or` that lower their left operand only.
visit_Binary_l_left_only(node, l_value, depth) ==
    IF ~l_value.ok THEN l_value
    ELSE IF node[3] \in {"And", "Or"} THEN l_value
    ELSE visit_Binary_r(node[3], l_value.value, visit(l_value.cg, node[4], depth))

visit_Binary_l(node, l_value, depth) ==
    IF ~l_value.ok THEN l_value
    ELSE visit_Binary_r(node[3], l_value.value, visit(l_value.cg, node[4], depth))

visit_Binary(cg, node, depth) ==
    visit_Binary_l(node, visit(cg, node[2], depth), depth)

visit_Let_value(name, v) ==
    IF ~v.ok THEN v ELSE Scope_set(v.cg, name, v.value)

visit_Let(cg, node, depth) == visit_Let_value(node[2], visit(cg, node[3], depth))

\* build_gep(ptr, [index]) of the IdentifierOp arm, on the visited index i.
identifier_op_gep(list_ptr, i) ==
    IF ~i.ok THEN i
    ELSE IF i.value[1] # "Int" THEN VPanic(i.cg, "unimplemented")
    ELSE emit(i.cg, "ptr", "ptr", "gep", <<list_ptr, i.value[2]>>)

identifier_op_index(list_ptr, index_node, depth) ==
    IF ~list_ptr.ok THEN list_ptr
    ELSE identifier_op_gep(list_ptr.value[2],
                           visit(list_ptr.cg, index_node, depth))

\* The `let ptr = match *name.clone()` of the IdentifierOp arm: <<"ptr", ptr>>.
identifier_op_ptr(cg, target, depth) ==
    IF target[1] = "Identifier" THEN Scope_get_ptr(cg, target[2])
    ELSE IF target[1] = "Index"
    THEN IF target[2][1] = "Identifier"
         THEN identifier_op_index(Scope_get_ptr(cg, target[2][2]), target[3], depth)
         ELSE VPanic(cg, "unimplemented")
    ELSE VPanic(cg, "unimplemented")

\* The operator the macro identifier_op! gives the IdentifierOp it visits for a
\* compound operator `op`.
identifier_op_desugared(op) == op

\* The macro identifier_op!, with `ptr` and the visited `value` v.
identifier_op(node, ptr, v, depth) ==
    IF ~v.ok THEN v
    ELSE IF node[3] = "Eq"
    THEN IF v.value[1] = "Void" THEN VPanic(v.cg, "void has no value")
         ELSE VOk(build(v.cg, <<"store", ptr, get_value(v.value)>>), v.value)
    ELSE visit(v.cg,
               Node_IdentifierOp(node[2], identifier_op_desugared(node[3]),
                                 Node_Binary(node[2], node[3], node[4])),
               depth)

visit_IdentifierOp_ptr(node, ptr, depth) ==
    IF ~ptr.ok THEN ptr
    ELSE identifier_op(node, ptr.value[2], visit(ptr.cg, node[4], depth), depth)

visit_IdentifierOp(cg, node, depth) ==
    visit_IdentifierOp_ptr(node, identifier_op_ptr(cg, node[2], depth), depth)

\* build_gep then build_load of the Index arm; the item has the tag `tag`.
index_load(cg, ptr, i, tag) ==
    emit(build_reg(cg, "ptr", "gep", <<ptr, i>>).cg, tag, llvm_type(tag), "load",
         <<reg("ptr", cg.next)>>)

\* The `match value` of the Index arm, on the visited index i.
visit_Index_index(v, i) ==
    IF ~i.ok THEN i
    ELSE IF v[1] = "Str"
    THEN IF i.value[1] # "Int" THEN VPanic(i.cg, "unimplemented")
         ELSE index_load(i.cg, v[2], i.value[2], "Char")
    ELSE IF v[1] = "Array"
    THEN IF i.value[1] # "Int" THEN VPanic(i.cg, "unimplemented")
         ELSE IF v[3] = "Void"
         THEN VPanic(index_load(i.cg, v[2], i.value[2], "Void").cg,
                     "can't have a void array")
         ELSE index_load(i.cg, v[2], i.value[2], v[3])
    ELSE VPanic(i.cg, "cannot index")

visit_Index_value(node, v, depth) ==
    IF ~v.ok THEN v
    ELSE visit_Index_index(v.value, visit(v.cg, node[3], depth))

visit_Index(cg, node, depth) ==
    visit_Index_value(node, visit(cg, node[2], depth), depth)

\* The While arm after its body b: the end block and the two branches.
visit_While_end(b, condition_block, condition_value, loop_block) ==
    IF ~b.ok THEN b
    ELSE VOk(position_at_end(
                 build(position_at_end(
                           build(append_basic_block(b.cg, b.cg.function,
                                                    "while_end"),
                                 <<"br", condition_block>>),
                           condition_block),
                       <<"condbr", condition_value, loop_block,
                         Len(b.cg.blocks) + 1>>),
                 Len(b.cg.blocks) + 1),
             Value_Int(const(int_type, 0)))

\* The While arm after its condition c: the loop block and the body.
visit_While_condition(node, c, condition_block, depth) ==
    IF ~c.ok THEN c
    ELSE IF c.value[1] # "Bool"
    THEN VPanic(c.cg, "while loops can only have a bool as their condition")
    ELSE visit_While_end(
             visit(position_at_end(
                       append_basic_block(c.cg, c.cg.function, "while_loop"),
                       Len(c.cg.blocks) + 1),
                   node[3], depth),
             condition_block, c.value[2], Len(c.cg.blocks) + 1)

visit_While(cg, node, depth) ==
    visit_While_condition(
        node,
        visit(position_at_end(
                  build(append_basic_block(cg, cg.function, "while_cond"),
                        <<"br", Len(cg.blocks) + 1>>),
                  Len(cg.blocks) + 1),
              node[2], depth),
        Len(cg.blocks) + 1, depth)

\* The phi of the `Some(else_case)` arm and the Value made of it.
if_phi(cg, then_value, then_end, else_value, else_end) ==
    IF then_value[1] = "Void" \/ else_value[1] = "Void"
    THEN VPanic(cg, "void isn't a valid type")
    ELSE VOk(build_reg(cg, get_type(then_value), "phi",
                       << <<get_value(then_value), then_end>>,
                          <<get_value(else_value), else_end>> >>).cg,
             IF then_value[1] = "Array"
             THEN Value_Array(reg(get_type(then_value), cg.next), then_value[3],
                              then_value[4])
             ELSE <<then_value[1], reg(get_type(then_value), cg.next)>>)

\* The `Some(else_case)` arm whose phi names the `else` block itself, the one
\* appended just before `if_end`, and not the block the else branch ended in.
visit_If_else_end_else_block(e, then_value, then_end, end_block) ==
    IF ~e.ok THEN e
    ELSE if_phi(position_at_end(build(e.cg, <<"br", end_block>>), end_block),
                then_value, then_end, e.value, end_block - 1)

\* The `Some(else_case)` arm after the else branch e.
visit_If_else_end(e, then_value, then_end, end_block) ==
    IF ~e.ok THEN e
    ELSE if_phi(position_at_end(build(e.cg, <<"br", end_block>>), end_block),
                then_value, then_end, e.value, e.cg.builder)

\* The `Some(else_case)` arm after the then branch t.
visit_If_else_then(node, t, else_block, end_block, depth) ==
    IF ~t.ok THEN t
    ELSE visit_If_else_end(
             visit(position_at_end(build(t.cg, <<"br", end_block>>), else_block),
                   node[4][2], depth),
             t.value, t.cg.builder, end_block)

\* The `Some(else_case)` arm of the If arm; cg has the `then` block appended.
visit_If_else(cg, node, condition_value, then_block, depth) ==
    visit_If_else_then(
        node,
        visit(position_at_end(
                  build(append_basic_block(
                            append_basic_block(cg, cg.function, "else"),
                            cg.function, "if_end"),
                        <<"condbr", condition_value, then_block,
                          Len(cg.blocks) + 1>>),
                  then_block),
              node[3], depth),
        Len(cg.blocks) + 1, Len(cg.blocks) + 2, depth)

\* The `None` arm after the then branch t.
visit_If_none_then(t, end_block) ==
    IF ~t.ok THEN t
    ELSE VOk(position_at_end(build(t.cg, <<"br", end_block>>), end_block),
             Value_Int(const(int_type, 0)))

\* The `None` arm of the If arm; cg has the `then` block appended.
visit_If_none(cg, node, condition_value, then_block, depth) ==
    visit_If_none_then(
        visit(position_at_end(
                  build(append_basic_block(cg, cg.function, "end"),
                        <<"condbr", condition_value, then_block,
                          Len(cg.blocks) + 1>>),
                  then_block),
              node[3], depth),
        Len(cg.blocks) + 1)

\* The If arm after its condition c.
visit_If_condition(node, c, depth) ==
    IF ~c.ok THEN c
    ELSE IF c.value[1] # "Bool"
    THEN VPanic(c.cg, "if statements can only have a bool as their condition")
    ELSE IF node[4] # None
    THEN visit_If_else(append_basic_block(c.cg, c.cg.function, "then"), node,
                       c.value[2], Len(c.cg.blocks) + 1, depth)
    ELSE visit_If_none(append_basic_block(c.cg, c.cg.function, "then"), node,
                       c.value[2], Len(c.cg.blocks) + 1, depth)

visit_If(cg, node, depth) == visit_If_condition(node, visit(cg, node[2], depth), depth)

\* Function::new_user: declares the function and records it in the scope.
Function_new_user(cg, name, arg_types, return_type) ==
    [cg EXCEPT !.scope[Len(cg.scope)].functions =
                   Append(@, <<name, Function_new(name, arg_types, return_type, TRUE)>>)]

\* Codegen::create_child: a new builder, the given function, a child scope.
create_child(cg, function) ==
    [cg EXCEPT !.builder = 0, !.function = function,
               !.scope = Append(@, Scope_new)]

\* get_nth_param(i) of the function `name`, with the LLVM type of `ty`.
nth_param(name, i, ty) ==
    <<"param", IF Len(ty) = 1 THEN llvm_type(ty[1]) ELSE "ptr", <<name, i>>>>

\* The closure of `args.iter().enumerate().for_each` of the Fn arm.
RECURSIVE fn_args(_, _, _, _)
fn_args(cg, name, args, i) ==
    IF i > Len(args) THEN VOk(cg, Value_Void)
    ELSE IF args[i][2] = <<"Void">>
    THEN VPanic(cg, "void isn't a valid argument type")
    ELSE IF args[i][2] = <<"Str">> \/ args[i][2][1] = "Array"
    THEN fn_args(insert_variable(cg, args[i][1],
                                 nth_param(name, i - 1, args[i][2]), args[i][2]),
                 name, args, i + 1)
    ELSE fn_args(build(insert_variable(
                           build_reg(cg, "ptr", "alloca",
                                     <<llvm_type(args[i][2][1]), args[i][1]>>).cg,
                           args[i][1], reg("ptr", cg.next), args[i][2]),
                       <<"store", reg("ptr", cg.next),
                         nth_param(name, i - 1, args[i][2])>>),
                 name, args, i + 1)

\* The Fn arm after the body b, visited by the child: the parent `self`, with
\* what the child built into the module.
visit_Fn_end(self, return_type, b) ==
    IF ~b.ok THEN b
    ELSE VOk([(IF return_type = Type_Void THEN build(b.cg, <<"ret">>) ELSE b.cg)
                  EXCEPT !.builder = self.builder, !.function = self.function,
                         !.scope = self.scope],
             Value_Int(const(int_type, 0)))

\* The Fn arm after the parameters are bound in the child.
visit_Fn_body(self, node, child, depth) ==
    IF ~child.ok THEN child
    ELSE visit_Fn_end(self, node[4], visit(child.cg, node[5], depth))

\* The Fn arm after Function::new_user; `function` is self.function.
visit_Fn_child(self, function, node, depth) ==
    visit_Fn_body(self, node,
                  fn_args(position_at_end(
                              create_child(append_basic_block(self, node[2], "body"),
                                           function),
                              Len(self.blocks) + 1),
                          node[2], node[3], 1),
                  depth)

visit_Fn(cg, node, depth) ==
    visit_Fn_child(Function_new_user(cg, node[2],
                                     [i \in 1..Len(node[3]) |-> node[3][i][2]],
                                     node[4]),
                   cg.function, node, depth)

visit_Return_value(v) ==
    IF ~v.ok THEN v
    ELSE IF v.value[1] = "Void" THEN VPanic(v.cg, "void isn't a valid type")
    ELSE VOk(build(v.cg, <<"ret", v.value[2]>>), Value_Int(const(int_type, 0)))

visit_Return(cg, node, depth) == visit_Return_value(visit(cg, node[2], depth))

\* One argument of the Call arm, visited as v.
visit_arg(v, args, i, values, depth) ==
    IF ~v.ok THEN v
    ELSE visit_args(v.cg, args, i + 1, Append(values, v.value), depth)

\* `args.iter().map(|arg| self.visit(arg.clone()))`: the Values, in order.
visit_args(cg, args, i, values, depth) ==
    IF i > Len(args) THEN VOk(cg, values)
    ELSE visit_arg(visit(cg, args[i], depth), args, i, values, depth)

\* generate_printf_format_string: a global string, built into no block.
generate_printf_format_string(arg_values) ==
    const("ptr", <<"format", [i \in 1..Len(arg_values) |-> arg_values[i][1]]>>)

\* Function::call: the call instruction; the result register has the LLVM type
\* of the declared return type.
Function_call(cg, function, arg_values) ==
    build_reg(cg,
              IF Len(function.return_type) = 1
              THEN llvm_type(function.return_type[1]) ELSE "ptr",
              "call",
              <<function.name,
                [i \in 1..Len(arg_values) |->
                    IF arg_values[i][1] = "Void" THEN <<"void">>
                    ELSE arg_values[i][2]]>>)

\* The `match function.return_type` of the Call arm, on the call's register.
call_value(cg, return_type, result) ==
    IF return_type[1] = "Array"
    THEN VOk(cg, Value_Array(result, return_type[2], return_type[3]))
    ELSE IF return_type = Type_Void THEN VOk(cg, Value_Void)
    ELSE VOk(cg, <<return_type[1], result>>)

\* The Call arm after get_function and the format string of print.
call_function(cg, function, arg_values) ==
    call_value(Function_call(cg, function, arg_values).cg, function.return_type,
               Function_call(cg, function, arg_values).reg)

\* The Call arm after its arguments vs.
visit_Call_args(name, vs) ==
    IF ~vs.ok THEN vs
    ELSE IF Scope_get_function(vs.cg, name) = None
    THEN VPanic(vs.cg, "function not found")
    ELSE call_function(vs.cg, Scope_get_function(vs.cg, name)[2],
                       IF name = "print"
                       THEN <<Value_Str(generate_printf_format_string(vs.value))>>
                                \o vs.value
                       ELSE vs.value)

visit_Call(cg, node, depth) ==
    visit_Call_args(node[2], visit_args(cg, node[3], 1, <<>>, depth))

\* One statement of the Statements arm, visited as v: it becomes rtn_value.
visit_node(v, nodes, i, depth) ==
    IF ~v.ok THEN v ELSE visit_nodes(v.cg, nodes, i + 1, v.value, depth)

\* The `for node in nodes` loop of the Statements arm, with `rtn_value`.
visit_nodes(cg, nodes, i, rtn_value, depth) ==
    IF i > Len(nodes) THEN VOk(cg, rtn_value)
    ELSE visit_node(visit(cg, nodes[i], depth), nodes, i, depth)

visit_Statements(cg, node, depth) ==
    visit_nodes(cg, node[2], 1, Value_Int(const(int_type, 0)), depth)

\* The Str arm: the alloca of the characters and their store.
visit_Str(cg, chars) ==
    VOk(build(build_reg(cg, "ptr", "alloca",
                        <<<<"array", char_type, "str">>, "str">>).cg,
              <<"store", reg("ptr", cg.next),
                const(<<"array", char_type, "str">>, chars)>>),
        Value_Str(reg("ptr", cg.next)))

visit(cg, node, depth) ==
    IF depth >= StackLimit THEN VOverflow(cg)
    ELSE IF node[1] = "Int" THEN VOk(cg, Value_Int(const(int_type, node[2])))
    ELSE IF node[1] = "Float" THEN VOk(cg, Value_Float(const(float_type, node[2])))
    ELSE IF node[1] = "Bool"
    THEN VOk(cg, Value_Bool(const(bool_type, IF node[2] THEN 1 ELSE 0)))
    ELSE IF node[1] = "Str" THEN visit_Str(cg, node[2])
    ELSE IF node[1] = "Char" THEN VOk(cg, Value_Char(const(char_type, node[2])))
    ELSE IF node[1] = "Array" THEN visit_Array(cg, node, depth + 1)
    ELSE IF node[1] = "Cast" THEN visit_Cast(cg, node, depth + 1)
    ELSE IF node[1] = "Identifier" THEN Scope_get(cg, node[2])
    ELSE IF node[1] = "Unary" THEN visit_Unary(cg, node, depth + 1)
    ELSE IF node[1] = "Binary" THEN visit_Binary(cg, node, depth + 1)
    ELSE IF node[1] = "Let" THEN visit_Let(cg, node, depth + 1)
    ELSE IF node[1] = "IdentifierOp" THEN visit_IdentifierOp(cg, node, depth + 1)
    ELSE IF node[1] = "Index" THEN visit_Index(cg, node, depth + 1)
    ELSE IF node[1] = "While" THEN visit_While(cg, node, depth + 1)
    ELSE IF node[1] = "If" THEN visit_If(cg, node, depth + 1)
    ELSE IF node[1] = "Fn" THEN visit_Fn(cg, node, depth + 1)
    ELSE IF node[1] = "Return" THEN visit_Return(cg, node, depth + 1)
    ELSE IF node[1] = "Call" THEN visit_Call(cg, node, depth + 1)
    ELSE IF node[1] = "Statements" THEN visit_Statements(cg, node, depth + 1)
    ELSE VPanic(cg, "unimplemented")

\* generate_llvm_ir after the visit v: the `ret 0` of main.
generate_return(v) ==
    IF ~v.ok THEN v
    ELSE VOk(build(v.cg, <<"ret", const(int_type, 0)>>), v.value)

\* Codegen::generate_llvm_ir.
generate_llvm_ir(cg, node) == generate_return(visit(cg, node, 0))

(***************************************************************************)
(* The compiler run: the driver parses the token vector, then generates    *)
(* the IR of the AST.  `input` records how the token vector was built.     *)
(***************************************************************************)
Start(toks, how) ==
    /\ tokens = toks
    /\ input = how
    /\ parser = new(toks)
    /\ ast = <<"none">>
    /\ pc = "new"
    /\ codegen = Codegen_new
    /\ value = <<"none">>

\* The driver after Parser::parse returned r, or panicked.
Parsed(r) ==
    /\ parser' = r.p
    /\ ast' = r.node
    /\ pc' = IF r.ok THEN "parsed" ELSE "parse_panic"

\* Parser::parse on the token vector.
Parse ==
    /\ pc = "new"
    /\ Parsed(parse(parser))
    /\ UNCHANGED <<tokens, input, codegen, value>>

\* The driver after Codegen::generate_llvm_ir returned g, or panicked.
Generated(g) ==
    /\ codegen' = g.cg
    /\ value' = g.value
    /\ pc' = IF g.ok THEN "generated" ELSE "codegen_panic"

\* Codegen::generate_llvm_ir on the parsed AST.
Generate ==
    /\ pc = "parsed"
    /\ Generated(generate_llvm_ir(codegen, ast))
    /\ UNCHANGED <<tokens, input, parser, ast>>

Next == Parse \/ Generate

(***************************************************************************)
(* Spec: every token vector of at most MaxLen tokens of Alphabet, then EOF.*)
(***************************************************************************)
MaxLen == 4
Alphabet ==
    {Identifier("a"), Int(1), Int(2), Token.Eq, Token.Newline, Token.Add, Token.LParen, Token.RParen, Token.If,
     Token.Colon}

Init ==
    \E n \in 1..MaxLen : \E s \in [1..n -> Alphabet] :
        Start(Append(s, Token.EOF), <<"tokens">>)

Spec == Init /\ [][Next]_vars

\* C1: for every token vector ending with EOF, when Parser::parse returns (it
\* did not abort) it returns a Statements node and has consumed every token
\* before the EOF: the cursor rests on the final EOF.
C1_ParseConsumesEveryToken ==
    pc = "parsed"
        => /\ ast[1] = "Statements"
           /\ parser.token = Token.EOF
           /\ parser.index = Len(tokens) - 1

\* `1 2` has been parsed, to Statements[1], with the cursor on the 2.
C1_Witness ==
    /\ pc = "parsed"
    /\ tokens = <<Int(1), Int(2), Token.EOF>>
    /\ ast = Node_Statements(<<Node_Int(1)>>)
    /\ parser.index = 1 /\ parser.token = Int(2)


(***************************************************************************)
(* The nodes of an AST.                                                    *)
(***************************************************************************)
\* The child nodes of a node, in source order.
Children(node) ==
    CASE node[1] \in {"Array", "Statements"} -> node[2]
      [] node[1] \in {"Cast", "Unary", "Let"} -> <<node[3]>>
      [] node[1] \in {"Binary", "IdentifierOp"} -> <<node[2], node[4]>>
      [] node[1] \in {"Index", "While"} -> <<node[2], node[3]>>
      [] node[1] = "If" ->
             <<node[2], node[3]>>
                 \o (IF node[4] = None THEN <<>> ELSE <<node[4][2]>>)
      [] node[1] = "For" -> <<node[3], node[4]>>
      [] node[1] = "Fn" -> <<node[5]>>
      [] node[1] = "Return" -> <<node[2]>>
      [] node[1] = "Call" -> node[3]
      [] OTHER -> <<>>

\* The node and all its descendants.
RECURSIVE Nodes(_)
Nodes(node) ==
    {node} \cup UNION {Nodes(Children(node)[i]) : i \in 1..Len(Children(node))}

\* C22: every IdentifierOp node of an AST that the parser returns has a target
\* that is Identifier(name) or Index(Identifier(name), index).
C22_IdentifierOpTargets ==
    pc = "parsed"
        => \A n \in Nodes(ast) :
               n[1] = "IdentifierOp"
                   => \/ n[2][1] = "Identifier"
                      \/ n[2][1] = "Index" /\ n[2][2][1] = "Identifier"

\* `1 = 2` has been parsed to an IdentifierOp whose target is the literal 1.
C22_Witness ==
    /\ pc = "parsed"
    /\ tokens = <<Int(1), Token.Eq, Int(2), Token.EOF>>
    /\ ast = Node_Statements(<<Node_IdentifierOp(Node_Int(1), "Eq", Node_Int(2))>>)

\* C29: an AST that Parser::parse returns holds no Node::EOF, neither as an
\* element of a Statements list nor as an operand of another node: a program
\* that ends in the middle of a construct aborts.
C29_NoEOFNode ==
    pc = "parsed" => Node_EOF \notin Nodes(ast)

\* `1 +` followed by the end of the input has been parsed to a Binary node
\* whose right operand is Node::EOF.
C29_Witness ==
    /\ pc = "parsed"
    /\ tokens = <<Int(1), Token.Add, Token.EOF>>
    /\ ast = Node_Statements(<<Node_Binary(Node_Int(1), "Add", Node_EOF)>>)
(***************************************************************************)
(* SpecStmts: programs of 1..MaxStatements statements of StatementPool,    *)
(* with up to MaxNewlines Newline tokens before the first statement and    *)
(* after the last, and 1..MaxNewlines between two statements.  Each entry  *)
(* of the pool is the token vector of a statement with the node it         *)
(* denotes.                                                                *)
(***************************************************************************)
MaxStatements == 3
MaxNewlines == 2

StatementPool ==
    << \* let x = 1
       [tokens |-> <<Token.Let, Identifier("x"), Token.Eq, Int(1)>>,
        node |-> Node_Let("x", Node_Int(1))],
       \* if a: b
       [tokens |-> <<Token.If, Identifier("a"), Token.Colon, Identifier("b")>>,
        node |-> Node_If(Node_Identifier("a"), Node_Identifier("b"), None)],
       \* if a: if b: x
       [tokens |-> <<Token.If, Identifier("a"), Token.Colon, Token.If, Identifier("b"), Token.Colon,
                     Identifier("x")>>,
        node |-> Node_If(Node_Identifier("a"),
                     Node_If(Node_Identifier("b"), Node_Identifier("x"), None),
                     None)],
       \* if a { \n b \n }
       [tokens |-> <<Token.If, Identifier("a"), Token.LBrace, Token.Newline, Identifier("b"),
                     Token.Newline, Token.RBrace>>,
        node |-> Node_If(Node_Identifier("a"),
                     Node_Statements(<<Node_Identifier("b")>>), None)],
       \* while a { if b: x \n \n y \n }
       [tokens |-> <<Token.While, Identifier("a"), Token.LBrace, Token.If, Identifier("b"), Token.Colon,
                     Identifier("x"), Token.Newline, Token.Newline, Identifier("y"), Token.Newline,
                     Token.RBrace>>,
        node |-> Node_While(Node_Identifier("a"),
                     Node_Statements(<<
                         Node_If(Node_Identifier("b"), Node_Identifier("x"), None),
                         Node_Identifier("y")>>))] >>

\* n Newline tokens.
Newlines(n) == [i \in 1..n |-> Token.Newline]

\* The statements `chosen` of the pool from the i-th on, the i-th followed by
\* nl[i] Newline tokens.
RECURSIVE StatementsFrom(_, _, _)
StatementsFrom(chosen, nl, i) ==
    IF i > Len(chosen) THEN <<>>
    ELSE StatementPool[chosen[i]].tokens \o Newlines(nl[i])
             \o StatementsFrom(chosen, nl, i + 1)

InitStmts ==
    \E n \in 1..MaxStatements :
        \E chosen \in [1..n -> 1..Len(StatementPool)] :
            \E nl \in [0..n -> 0..MaxNewlines] :
                /\ \A i \in 1..(n - 1) : nl[i] >= 1
                /\ Start(Newlines(nl[0]) \o StatementsFrom(chosen, nl, 1)
                             \o <<Token.EOF>>,
                         <<"statements",
                           [i \in 1..n |-> StatementPool[chosen[i]].node], nl>>)

SpecStmts == InitStmts /\ [][Next]_vars

\* C3: a program of statements s1..sn separated by one or more Newline tokens,
\* with any number of Newline tokens before s1 and after sn, parses without a
\* fatal error to exactly Statements[s1, ..., sn], in source order.
C3_StatementsInOrder ==
    (input[1] = "statements" /\ pc # "new")
        => (pc # "parse_panic" /\ ast = Node_Statements(input[2]))

\* Three statements with two Newline tokens before, between and after them
\* have been parsed.
C3_Witness ==
    /\ input[1] = "statements" /\ pc = "parsed"
    /\ Len(input[2]) = 3
    /\ \A i \in 0..3 : input[3][i] = 2
    /\ Len(ast[2]) = 3

\* C5: whenever if_expr returned an `if` without an else arm after skipping
\* k >= 1 Newline tokens, it returned with the current token a Newline, the
\* cursor one token before the token that follows the newlines; and the
\* statements after such an `if`, top-level or nested in a body, are parsed as
\* separate siblings.
C5_IfRestoresNewline ==
    /\ \A i \in 1..Len(parser.log) :
           (parser.log[i].newlines >= 1 /\ ~parser.log[i].else_found)
               => /\ parser.log[i].token = Token.Newline
                  /\ tokens[parser.log[i].index + 1] = Token.Newline
                  /\ parser.log[i].index + 1
                         = parser.log[i].after_body + parser.log[i].newlines
                  /\ tokens[parser.log[i].index + 2] # Token.Newline
    /\ (input[1] = "statements" /\ pc = "parsed")
           => ast = Node_Statements(input[2])

\* An `if` nested in a body returned after skipping two Newline tokens, and the
\* program was parsed to the end.
C5_Witness ==
    /\ input[1] = "statements" /\ pc = "parsed"
    /\ Len(input[2]) >= 2
    /\ \E i \in 1..Len(parser.log) :
           /\ parser.log[i].newlines = 2
           /\ ~parser.log[i].else_found
           /\ parser.log[i].start > 0
           /\ parser.log[i].token = Token.Newline

(***************************************************************************)
(* SpecElse: `if a <if b x else y>` with each of the three bodies in       *)
(* brace or colon form, 0..MaxNewlines Newline tokens before `else` and    *)
(* after the whole statement, x one of ElseBodies.                         *)
(***************************************************************************)
Forms == {"brace", "colon"}

ElseBodies ==
    { [tokens |-> <<Identifier("x")>>, node |-> Node_Identifier("x")],
      [tokens |-> <<Identifier("x"), Token.Add, Int(1)>>,
       node |-> Node_Binary(Node_Identifier("x"), "Add", Node_Int(1))] }

\* The tokens of a body in the given form, and the node the form makes of it.
BodyTokens(form, toks) ==
    IF form = "brace" THEN <<Token.LBrace>> \o toks \o <<Token.RBrace>> ELSE <<Token.Colon>> \o toks

BodyNode(form, node) ==
    IF form = "brace" THEN Node_Statements(<<node>>) ELSE node

\* if b <x> \n* else <y>
InnerIfElse(how) ==
    <<Token.If, Identifier("b")>> \o BodyTokens(how.inner, how.x.tokens)
        \o Newlines(how.newlines) \o <<Token.Else>>
        \o BodyTokens(how.else, <<Identifier("y")>>)

InitElse ==
    \E outer \in Forms, inner \in Forms, else \in Forms, x \in ElseBodies :
        \E newlines \in 0..MaxNewlines, after \in 0..MaxNewlines :
            Start(<<Token.If, Identifier("a")>>
                      \o BodyTokens(outer,
                             InnerIfElse([inner |-> inner, else |-> else,
                                          x |-> x, newlines |-> newlines]))
                      \o Newlines(after) \o <<Token.EOF>>,
                  <<"else", [outer |-> outer, inner |-> inner, else |-> else,
                             x |-> x, newlines |-> newlines, after |-> after]>>)

SpecElse == InitElse /\ [][Next]_vars

\* C4: in `if a { if b { x } else { y } }`, in its colon form and in the mixed
\* forms, with or without Newline tokens before `else`, the parser returns an
\* outer If with no else arm whose body holds the inner If carrying the else
\* arm y.
C4_ElseBindsToInnerIf ==
    (input[1] = "else" /\ pc # "new")
        => /\ pc # "parse_panic"
           /\ ast = Node_Statements(<<
                  Node_If(Node_Identifier("a"),
                          BodyNode(input[2].outer,
                              Node_If(Node_Identifier("b"),
                                      BodyNode(input[2].inner, input[2].x.node),
                                      Some(BodyNode(input[2].else,
                                                    Node_Identifier("y"))))),
                          None)>>)

\* The brace form around the colon form, with two Newline tokens before `else`,
\* has been parsed: the outer If has no else arm, the inner one has.
C4_Witness ==
    /\ input[1] = "else" /\ pc = "parsed"
    /\ input[2].outer = "brace" /\ input[2].inner = "colon"
    /\ input[2].newlines = 2
    /\ ast[2][1][4] = None
    /\ ast[2][1][3][2][1][4] # None

(***************************************************************************)
(* SpecExpr: the fully parenthesized expressions of at most MaxOps unary   *)
(* and binary operators over identifiers, and the flat expressions         *)
(* `a op1 b op2 c` of every two binary operators.                          *)
(***************************************************************************)
MaxOps == 2

BinaryOps ==
    {"Or", "And", "EqEq", "Neq", "Lt", "Lte", "Gt", "Gte",
     "Add", "Sub", "Mul", "Div", "Rem"}
UnaryOps == {"Not", "Pos", "Neg"}

\* The token of a BinaryOp, and of a UnaryOp.
BinaryToken(op) == <<op>>
UnaryToken(op) == IF op = "Not" THEN Token.Not ELSE IF op = "Pos" THEN Token.Add ELSE Token.Sub

LeafNames == <<"a", "b", "c", "d", "e", "f">>

\* The operator trees of exactly n operators, every leaf the same identifier.
RECURSIVE TreesOf(_)
TreesOf(n) ==
    IF n = 0 THEN {Node_Identifier("a")}
    ELSE {Node_Unary(op, e) : op \in UnaryOps, e \in TreesOf(n - 1)}
         \cup UNION {{Node_Binary(l, op, r) :
                          op \in BinaryOps, l \in TreesOf(k),
                          r \in TreesOf(n - 1 - k)} : k \in 0..(n - 1)}

RECURSIVE Leaves(_)
Leaves(e) ==
    IF e[1] = "Identifier" THEN 1
    ELSE IF e[1] = "Unary" THEN Leaves(e[3])
    ELSE Leaves(e[2]) + Leaves(e[4])

\* The tree e with its leaves named a, b, c, ... from left to right, the first
\* one LeafNames[k].
RECURSIVE LabelFrom(_, _)
LabelFrom(e, k) ==
    IF e[1] = "Identifier" THEN Node_Identifier(LeafNames[k])
    ELSE IF e[1] = "Unary" THEN Node_Unary(e[2], LabelFrom(e[3], k))
    ELSE Node_Binary(LabelFrom(e[2], k), e[3], LabelFrom(e[4], k + Leaves(e[2])))

\* The tokens of e with every operator application in parentheses.
RECURSIVE Parenthesized(_)
Parenthesized(e) ==
    IF e[1] = "Identifier" THEN <<Identifier(e[2])>>
    ELSE IF e[1] = "Unary"
    THEN <<Token.LParen, UnaryToken(e[2])>> \o Parenthesized(e[3]) \o <<Token.RParen>>
    ELSE <<Token.LParen>> \o Parenthesized(e[2]) \o <<BinaryToken(e[3])>>
             \o Parenthesized(e[4]) \o <<Token.RParen>>

InitParenthesized ==
    \E n \in 0..MaxOps : \E e \in TreesOf(n) :
        Start(Parenthesized(LabelFrom(e, 1)) \o <<Token.EOF>>,
              <<"parenthesized", LabelFrom(e, 1)>>)

InitFlat ==
    \E op1 \in BinaryOps, op2 \in BinaryOps :
        Start(<<Identifier("a"), BinaryToken(op1), Identifier("b"),
                BinaryToken(op2), Identifier("c"), Token.EOF>>,
              <<"flat", op1, op2>>)

InitExpr == InitParenthesized \/ InitFlat

SpecExpr == InitExpr /\ [][Next]_vars

\* C6: a fully parenthesized expression of unary and binary operators over
\* atoms parses, without a fatal error, to exactly the operator tree its
\* parentheses give, whatever the precedence levels of the operators.
C6_ParenthesesGiveTheTree ==
    (input[1] = "parenthesized" /\ pc # "new")
        => (pc # "parse_panic" /\ ast = Node_Statements(<<input[2]>>))

\* `((a + b) * c)`, where the parentheses go against the precedence levels, has
\* been parsed.
C6_Witness ==
    /\ pc = "parsed"
    /\ input = <<"parenthesized",
                 Node_Binary(Node_Binary(Node_Identifier("a"), "Add",
                                         Node_Identifier("b")),
                             "Mul", Node_Identifier("c"))>>
    /\ ast[2][1][2][1] = "Binary"

\* The precedence level of a binary operator, the loosest first.
Level(op) ==
    CASE op = "Or" -> 1
      [] op = "And" -> 2
      [] op \in {"EqEq", "Neq", "Lt", "Lte", "Gt", "Gte"} -> 3
      [] op \in {"Add", "Sub"} -> 4
      [] op \in {"Mul", "Div", "Rem"} -> 5

\* C7: `a op1 b op2 c` parses to Binary(a, op1, Binary(b, op2, c)) when op1 and
\* op2 are of the same level (right associativity) or op2 is of a higher
\* level, and to Binary(Binary(a, op1, b), op2, c) when op1 is of a higher
\* level than op2.
C7_RightAssociativeLevels ==
    (input[1] = "flat" /\ pc # "new")
        => /\ pc # "parse_panic"
           /\ ast = Node_Statements(<<
                  IF Level(input[2]) <= Level(input[3])
                  THEN Node_Binary(Node_Identifier("a"), input[2],
                           Node_Binary(Node_Identifier("b"), input[3],
                                       Node_Identifier("c")))
                  ELSE Node_Binary(
                           Node_Binary(Node_Identifier("a"), input[2],
                                       Node_Identifier("b")),
                           input[3], Node_Identifier("c"))>>)

\* `a - b - c` has been parsed, to a - (b - c).
C7_Witness ==
    /\ pc = "parsed"
    /\ input = <<"flat", "Sub", "Sub">>
    /\ ast[2][1][4] = Node_Binary(Node_Identifier("b"), "Sub", Node_Identifier("c"))

(***************************************************************************)
(* SpecCall: an atom of CallAtoms followed by `(`, at most MaxArgs          *)
(* arguments of CallArgs separated by commas, with or without a trailing   *)
(* comma, and `)`.  Each atom has its tokens and the node atom() returns.  *)
(***************************************************************************)
MaxArgs == 2

CallAtoms ==
    { \* f
      [kind |-> "Identifier", tokens |-> <<Identifier("f")>>,
       node |-> Node_Identifier("f")],
      \* (f)
      [kind |-> "Identifier", tokens |-> <<Token.LParen, Identifier("f"), Token.RParen>>,
       node |-> Node_Identifier("f")],
      \* int
      [kind |-> "Type", tokens |-> <<Ty("Int")>>,
       node |-> Node_Type(Type_Scalar("Int"))],
      \* float[3]
      [kind |-> "Type", tokens |-> <<Ty("Float"), Token.LBracket, Int(3), Token.RBracket>>,
       node |-> Node_Type(Type_Array("Float", 3))],
      \* 1
      [kind |-> "Int", tokens |-> <<Int(1)>>, node |-> Node_Int(1)],
      \* "s"
      [kind |-> "Str", tokens |-> <<Str("s")>>, node |-> Node_Str("s")],
      \* (1)
      [kind |-> "Int", tokens |-> <<Token.LParen, Int(1), Token.RParen>>, node |-> Node_Int(1)],
      \* a[0]
      [kind |-> "Index", tokens |-> <<Identifier("a"), Token.LBracket, Int(0), Token.RBracket>>,
       node |-> Node_Index(Node_Identifier("a"), Node_Int(0))],
      \* [1]
      [kind |-> "Array", tokens |-> <<Token.LBracket, Int(1), Token.RBracket>>,
       node |-> Node_Array(<<Node_Int(1)>>)],
      \* if a { b }
      [kind |-> "If",
       tokens |-> <<Token.If, Identifier("a"), Token.LBrace, Identifier("b"), Token.RBrace>>,
       node |-> Node_If(Node_Identifier("a"),
                        Node_Statements(<<Node_Identifier("b")>>), None)],
      \* while a { b }
      [kind |-> "While",
       tokens |-> <<Token.While, Identifier("a"), Token.LBrace, Identifier("b"), Token.RBrace>>,
       node |-> Node_While(Node_Identifier("a"),
                           Node_Statements(<<Node_Identifier("b")>>))],
      \* fn g() { b }
      [kind |-> "Fn",
       tokens |-> <<Token.Fn, Identifier("g"), Token.LParen, Token.RParen, Token.LBrace, Identifier("b"),
                    Token.RBrace>>,
       node |-> Node_Fn("g", <<>>, Type_Void,
                        Node_Statements(<<Node_Identifier("b")>>))] }

CallArgs ==
    { [tokens |-> <<Identifier("a")>>, node |-> Node_Identifier("a")],
      [tokens |-> <<Int(1), Token.Add, Int(2)>>,
       node |-> Node_Binary(Node_Int(1), "Add", Node_Int(2))] }

\* The tokens of the arguments from the i-th on, separated by commas.
RECURSIVE ArgTokens(_, _)
ArgTokens(args, i) ==
    IF i > Len(args) THEN <<>>
    ELSE args[i].tokens \o (IF i < Len(args) THEN <<Token.Comma>> ELSE <<>>)
             \o ArgTokens(args, i + 1)

InitCall ==
    \E atom_ \in CallAtoms : \E n \in 0..MaxArgs : \E args \in [1..n -> CallArgs] :
        \E trailing \in {c \in BOOLEAN : c => n > 0} :
            Start(atom_.tokens \o <<Token.LParen>> \o ArgTokens(args, 1)
                      \o (IF trailing THEN <<Token.Comma>> ELSE <<>>)
                      \o <<Token.RParen, Token.EOF>>,
                  <<"call", atom_, [i \in 1..n |-> args[i].node], trailing>>)

SpecCall == InitCall /\ [][Next]_vars

\* C8: when an atom is followed by `(`: an Identifier(name) atom yields
\* Call(name, args); a Type(t) atom yields Cast(t, e) when exactly one
\* expression followed by `)` is present and aborts otherwise; every other
\* atom (a literal, an Index, an array, an if, while or fn expression) aborts
\* with the fatal error of call.
C8_CallOrCastOrAbort ==
    (input[1] = "call" /\ pc # "new")
        => IF input[2].kind = "Identifier"
           THEN /\ pc # "parse_panic"
                /\ ast = Node_Statements(<<Node_Call(input[2].node[2], input[3])>>)
           ELSE IF input[2].kind = "Type"
           THEN IF Len(input[3]) = 1 /\ ~input[4]
                THEN /\ pc # "parse_panic"
                     /\ ast = Node_Statements(<<
                            Node_Cast(input[2].node[2], input[3][1])>>)
                ELSE pc = "parse_panic"
           ELSE /\ pc = "parse_panic"
                /\ ast = <<"panic", "expected identifier or type">>

\* The parse of `a[0](a)` has aborted.
C8_Witness ==
    /\ input[1] = "call" /\ pc = "parse_panic"
    /\ input[2].kind = "Index"
    /\ Len(input[3]) = 1
    /\ parser.index = 5

(***************************************************************************)
(* SpecGen: programs that are lowered.  The empty programs of              *)
(* 0..MaxNewlines Newline tokens; `let x = v \n x op= e` and its           *)
(* desugared form `let x = v \n x = x op e` for every operator and value;  *)
(* `let x = 1 \n if/while c { s } \n x` with s a `let x = 2` or an         *)
(* `x = 2`.                                                                *)
(***************************************************************************)
InitEmpty ==
    \E k \in 0..MaxNewlines : Start(Newlines(k) \o <<Token.EOF>>, <<"empty", k>>)

CompoundOps == {"Add", "Sub", "Mul", "Div", "Rem"}

\* The assignment token of a compound operator.
CompoundToken(op) ==
    CASE op = "Add" -> Token.AddEq [] op = "Sub" -> Token.SubEq [] op = "Mul" -> Token.MulEq
      [] op = "Div" -> Token.DivEq [] op = "Rem" -> Token.RemEq

CompoundValues ==
    { [tokens |-> <<Int(1)>>, node |-> Node_Int(1)],
      [tokens |-> <<Float(2)>>, node |-> Node_Float(2)] }

CompoundOperands ==
    { [tokens |-> <<Int(3)>>, node |-> Node_Int(3)],
      [tokens |-> <<Identifier("x")>>, node |-> Node_Identifier("x")],
      [tokens |-> <<Identifier("x"), Token.Mul, Int(2)>>,
       node |-> Node_Binary(Node_Identifier("x"), "Mul", Node_Int(2))] }

\* let x = v \n x = x op e
Desugared(v, op, e) ==
    Node_Statements(<<
        Node_Let("x", v.node),
        Node_IdentifierOp(Node_Identifier("x"), "Eq",
            Node_Binary(Node_Identifier("x"), op, e.node))>>)

InitCompound ==
    \E v \in CompoundValues, op \in CompoundOps, e \in CompoundOperands :
        \/ Start(<<Token.Let, Identifier("x"), Token.Eq>> \o v.tokens
                     \o <<Token.Newline, Identifier("x"), CompoundToken(op)>>
                     \o e.tokens \o <<Token.EOF>>,
                 <<"compound", v, op, e>>)
        \/ Start(<<Token.Let, Identifier("x"), Token.Eq>> \o v.tokens
                     \o <<Token.Newline, Identifier("x"), Token.Eq, Identifier("x"),
                          BinaryToken(op)>>
                     \o e.tokens \o <<Token.EOF>>,
                 <<"desugared", v, op, e>>)

BlockHeads ==
    { [name |-> "then", tokens |-> <<Token.If, Bool(TRUE)>>],
      [name |-> "then", tokens |-> <<Token.If, Identifier("x"), Token.Lt, Int(2)>>],
      [name |-> "while_loop", tokens |-> <<Token.While, Identifier("x"), Token.Lt, Int(2)>>] }

BlockStatements ==
    { [kind |-> "let", tokens |-> <<Token.Let, Identifier("x"), Token.Eq, Int(2)>>],
      [kind |-> "assign", tokens |-> <<Identifier("x"), Token.Eq, Int(2)>>] }

InitBlock ==
    \E head \in BlockHeads, s \in BlockStatements, k \in 0..MaxNewlines :
        Start(<<Token.Let, Identifier("x"), Token.Eq, Int(1), Token.Newline>> \o head.tokens
                  \o <<Token.LBrace>> \o Newlines(k) \o s.tokens \o Newlines(k)
                  \o <<Token.RBrace, Token.Newline, Identifier("x"), Token.EOF>>,
              <<"block", head.name, s.kind>>)

InitGen == InitEmpty \/ InitCompound \/ InitBlock

SpecGen == InitGen /\ [][Next]_vars

\* The instructions of the blocks named `name` that store into `slot`.
StoresInto(cg, name, slot) ==
    UNION {{<<bb, i>> : i \in {j \in 1..Len(cg.blocks[bb].insts) :
                                  /\ cg.blocks[bb].insts[j][1] = "store"
                                  /\ cg.blocks[bb].insts[j][2] = slot}} :
           bb \in {k \in 1..Len(cg.blocks) : cg.blocks[k].name = name}}

\* The slot of the variable x of the outermost scope.
SlotOfX(cg) == lookup_variable(cg.scope, "x", 1)[2][1]

\* C2: the empty program, with or without leading Newline tokens, is parsed
\* and lowered without a fatal error, and the body of main consists solely of
\* `return 0`.
C2_EmptyProgramReturnsZero ==
    (input[1] = "empty" /\ pc \notin {"new", "parsed"})
        => /\ pc = "generated"
           /\ Len(codegen.blocks) = 1
           /\ codegen.blocks[1].insts = <<<<"ret", const(int_type, 0)>>>>

\* The token vector [EOF] was parsed to Statements[EOF], and lowering it ended
\* in the `unimplemented!()` arm of visit.
C2_Witness ==
    /\ input = <<"empty", 0>>
    /\ ast = Node_Statements(<<Node_EOF>>)
    /\ pc = "codegen_panic"
    /\ value = <<"panic", "unimplemented">>

\* The run has ended as lowering the program `reference` does.
LoweredAs(reference) ==
    /\ pc = "generated"
    /\ codegen = reference.cg
    /\ value = reference.value

\* C9: lowering `x op= e` (op one of Add, Sub, Mul, Div, Rem) completes, leaves
\* the module that lowering `x = x op e` leaves, and has emitted exactly one
\* store into the slot of x besides the one of `let x = v`.
C9_CompoundAssignmentDesugars ==
    (input[1] = "compound" /\ pc \notin {"new", "parsed"})
        => /\ LoweredAs(generate_llvm_ir(Codegen_new,
                                         Desugared(input[2], input[3], input[4])))
           /\ Cardinality(StoresInto(codegen, "body", SlotOfX(codegen))) = 2

\* Lowering `let x = 1 \n x += 3` has ended in a stack overflow.
C9_Witness ==
    /\ input[1] = "compound" /\ input[3] = "Add"
    /\ input[2].node = Node_Int(1) /\ input[4].node = Node_Int(3)
    /\ pc = "codegen_panic"
    /\ value = <<"stack overflow">>

\* C10: with an outer variable x, lowering `let x = 2` inside the brace block
\* of an if or a while completes and emits no store into the slot of the outer
\* x in the block, and lowering `x = 2` inside the block emits one.
C10_LetInBlockKeepsOuter ==
    (input[1] = "block" /\ pc \notin {"new", "parsed"})
        => /\ pc = "generated"
           /\ Cardinality(StoresInto(codegen, input[2], SlotOfX(codegen)))
                  = IF input[3] = "let" THEN 0 ELSE 1

\* `let x = 2` in the body of an if has been lowered to a store into the slot
\* of the outer x.
C10_Witness ==
    /\ input = <<"block", "then", "let">>
    /\ pc = "generated"
    /\ Len(codegen.scope[1].variables) = 1
    /\ Cardinality(StoresInto(codegen, "then", SlotOfX(codegen))) = 1
    /\ StoresInto(codegen, "then", SlotOfX(codegen)) # {}


\* C26: Codegen::visit terminates on every AST: lowering returns a Value or
\* aborts with a panic of the code generator after finitely many recursive
\* calls; it never runs out of stack on these programs, none of which nests
\* deeper than four nodes.
C26_VisitTerminates ==
    pc \in {"generated", "codegen_panic"} => value # <<"stack overflow">>

\* Lowering `let x = 2.0 \n x -= x` recursed on the same IdentifierOp node until
\* the stack was exhausted.
C26_Witness ==
    /\ pc = "codegen_panic"
    /\ input[1] = "compound" /\ input[3] = "Sub"
    /\ input[2].node = Node_Float(2) /\ input[4].node = Node_Identifier("x")
    /\ ast[2][2] = Node_IdentifierOp(Node_Identifier("x"), "Sub", Node_Identifier("x"))
    /\ value = <<"stack overflow">>
(***************************************************************************)
(* SpecCast: an operand of every Value tag, bare or under one or two       *)
(* casts t(e), t2(t1(e)) to every Type.  The Void operand is the call of   *)
(* a function declared without a return type.                              *)
(***************************************************************************)
MaxCasts == 2

CastOperands ==
    { [tag |-> "Int", prelude |-> <<>>, tokens |-> <<Int(1)>>],
      [tag |-> "Int", prelude |-> <<>>, tokens |-> <<Int(1), Token.Add, Int(2)>>],
      [tag |-> "Float", prelude |-> <<>>, tokens |-> <<Float(2)>>],
      [tag |-> "Bool", prelude |-> <<>>, tokens |-> <<Bool(TRUE)>>],
      [tag |-> "Bool", prelude |-> <<>>, tokens |-> <<Int(1), Token.Lt, Int(2)>>],
      [tag |-> "Char", prelude |-> <<>>, tokens |-> <<Char("c")>>],
      [tag |-> "Str", prelude |-> <<>>, tokens |-> <<Str("s")>>],
      [tag |-> "Array", prelude |-> <<>>,
       tokens |-> <<Token.LBracket, Int(1), Token.Comma, Int(2), Token.RBracket>>],
      [tag |-> "Void",
       prelude |-> <<Token.Fn, Identifier("f"), Token.LParen, Token.RParen,
                     Token.LBrace, Int(1), Token.RBrace, Token.Newline>>,
       tokens |-> <<Identifier("f"), Token.LParen, Token.RParen>>] }

CastTypes ==
    { [ty |-> Type_Scalar("Int"), tokens |-> <<Ty("Int")>>],
      [ty |-> Type_Scalar("Float"), tokens |-> <<Ty("Float")>>],
      [ty |-> Type_Scalar("Bool"), tokens |-> <<Ty("Bool")>>],
      [ty |-> Type_Scalar("Char"), tokens |-> <<Ty("Char")>>],
      [ty |-> Type_Scalar("Str"), tokens |-> <<Ty("Str")>>],
      [ty |-> Type_Void, tokens |-> <<Ty("Void")>>],
      [ty |-> Type_Array("Int", 2),
       tokens |-> <<Ty("Int"), Token.LBracket, Int(2), Token.RBracket>>] }

\* casts[n]( .. casts[1]( e ) .. ), from the i-th cast outwards.
RECURSIVE CastTokens(_, _, _)
CastTokens(casts, i, inner) ==
    IF i > Len(casts) THEN inner
    ELSE CastTokens(casts, i + 1,
                    casts[i].tokens \o <<Token.LParen>> \o inner \o <<Token.RParen>>)

InitCast ==
    \E e \in CastOperands : \E n \in 0..MaxCasts : \E casts \in [1..n -> CastTypes] :
        Start(e.prelude \o CastTokens(casts, 1, e.tokens) \o <<Token.EOF>>,
              <<"cast", e.tag, [i \in 1..n |-> casts[i].ty]>>)

SpecCast == InitCast /\ [][Next]_vars

\* The LLVM type of the operand of the Value v is the one of its tag.
TagMatchesOperand(v) == v[1] = "Void" \/ v[2][2] = llvm_type(v[1])

\* C11: the Value that visit returns for a program carries a tag consistent
\* with the LLVM type of its operand (Int with i32, Float with f64, Bool with
\* i1, Char with i8, Str and Array with a pointer), also for the casts between
\* Int and Bool.
C11_TagMatchesOperandType ==
    (input[1] = "cast" /\ pc = "generated") => TagMatchesOperand(value)

\* `bool(1)` has been lowered to the Value Bool that carries the i32 constant 1.
C11_Witness ==
    /\ input = <<"cast", "Int", <<Type_Scalar("Bool")>>>>
    /\ pc = "generated"
    /\ value = Value_Bool(const(int_type, 1))

\* The pairs (tag of e, t) of a cast that yields a Value.
CastPairs ==
    ({"Int", "Float", "Bool"} \X {<<"Int">>, <<"Float">>, <<"Bool">>})
        \cup {<<"Char", <<"Char">>>>, <<"Str", <<"Str">>>>}

\* Every cast of types[i..] is one of CastPairs, on an operand tagged `tag`.
RECURSIVE CastsAllowed(_, _, _)
CastsAllowed(tag, types, i) ==
    IF i > Len(types) THEN TRUE
    ELSE <<tag, types[i]>> \in CastPairs /\ CastsAllowed(types[i][1], types, i + 1)

\* C15: lowering Cast(t, e) yields a Value tagged t exactly when (tag of e, t)
\* is one of the nine pairs over {Int, Float, Bool}, (Char, Char) or
\* (Str, Str); for every other pair, the casts to or from Array or Void
\* included, it aborts with a fatal error and yields no Value.
C15_CastPairs ==
    (input[1] = "cast" /\ Len(input[3]) > 0 /\ pc \notin {"new", "parsed"})
        => IF CastsAllowed(input[2], input[3], 1)
           THEN pc = "generated" /\ value[1] = input[3][Len(input[3])][1]
           ELSE pc = "codegen_panic" /\ value[1] = "panic"

\* `int(f())` of a function f without a return type has aborted in the
\* `_ => unimplemented!()` arm of the cast to Int.
C15_Witness ==
    /\ input = <<"cast", "Void", <<Type_Scalar("Int")>>>>
    /\ pc = "codegen_panic"
    /\ value = <<"panic", "unimplemented">>
(***************************************************************************)
(* SpecFlow: `if c <then> else <else>` with the arms drawn from IfArms:      *)
(* blocks that yield each Value tag, and blocks that end in another basic  *)
(* block than they started in (a nested if, with or without else, and a    *)
(* nested while); root programs of 1..MaxMain statements with and without  *)
(* `return`; `let x = 1 \n while c { b }` with conditions and bodies that   *)
(* contain if and while nodes.                                             *)
(***************************************************************************)
IfConditions ==
    { <<Bool(TRUE)>>, <<Int(1), Token.Lt, Int(2)>>, <<Token.Not, Bool(FALSE)>> }

IfArms ==
    { [name |-> "int", tokens |-> <<Int(1)>>],
      [name |-> "float", tokens |-> <<Float(2)>>],
      [name |-> "bool", tokens |-> <<Bool(TRUE)>>],
      [name |-> "char", tokens |-> <<Char("c")>>],
      [name |-> "str", tokens |-> <<Str("s")>>],
      [name |-> "if",
       tokens |-> <<Token.If, Bool(TRUE), Token.LBrace, Int(1), Token.RBrace>>],
      [name |-> "if_else",
       tokens |-> <<Token.If, Bool(FALSE), Token.LBrace, Int(1), Token.RBrace,
                    Token.Else, Token.LBrace, Int(2), Token.RBrace>>],
      [name |-> "while",
       tokens |-> <<Token.While, Bool(FALSE), Token.LBrace, Int(1), Token.RBrace>>] }

InitIf ==
    \E c \in IfConditions, t \in IfArms, e \in IfArms :
        Start(<<Token.If>> \o c \o <<Token.LBrace>> \o t.tokens
                  \o <<Token.RBrace, Token.Else, Token.LBrace>> \o e.tokens
                  \o <<Token.RBrace, Token.EOF>>,
              <<"if_else", t.name, e.name>>)

\* A top-level statement of the programs of InitMain.
MainStatements ==
    { <<Int(1)>>,
      <<Token.Let, Identifier("x"), Token.Eq, Int(1)>>,
      <<Token.Return, Int(1)>>,
      <<Token.Return, Identifier("x")>>,
      <<Token.If, Bool(TRUE), Token.LBrace, Token.Return, Int(1), Token.RBrace>>,
      <<Token.While, Bool(FALSE), Token.LBrace, Int(1), Token.RBrace>> }

MaxMain == 2

\* The statements from the i-th on, one per line.
RECURSIVE MainTokens(_, _)
MainTokens(ss, i) ==
    IF i > Len(ss) THEN <<>>
    ELSE ss[i] \o (IF i < Len(ss) THEN <<Token.Newline>> ELSE <<>>)
             \o MainTokens(ss, i + 1)

\* Root programs of 1..MaxMain top-level statements.
InitMain ==
    \E n \in 1..MaxMain : \E ss \in [1..n -> MainStatements] :
        Start(MainTokens(ss, 1) \o <<Token.EOF>>, <<"main", ss>>)

\* The conditions and the bodies of the loops of InitWhile.
WhileConditions ==
    { [name |-> "const", tokens |-> <<Bool(TRUE)>>],
      [name |-> "compare", tokens |-> <<Identifier("x"), Token.Lt, Int(3)>>],
      [name |-> "not", tokens |-> <<Token.Not, Bool(FALSE)>>],
      [name |-> "if_else",
       tokens |-> <<Token.If, Identifier("x"), Token.Lt, Int(3), Token.LBrace,
                    Bool(TRUE), Token.RBrace, Token.Else, Token.LBrace,
                    Bool(FALSE), Token.RBrace>>] }

WhileBodies ==
    { [name |-> "int", tokens |-> <<Int(1)>>],
      [name |-> "assign",
       tokens |-> <<Identifier("x"), Token.Eq, Identifier("x"), Token.Add, Int(1)>>],
      [name |-> "if",
       tokens |-> <<Token.If, Bool(TRUE), Token.LBrace, Int(1), Token.RBrace>>],
      [name |-> "if_else",
       tokens |-> <<Token.If, Bool(FALSE), Token.LBrace, Int(1), Token.RBrace,
                    Token.Else, Token.LBrace, Int(2), Token.RBrace>>],
      [name |-> "while",
       tokens |-> <<Token.While, Bool(FALSE), Token.LBrace, Int(1), Token.RBrace>>] }

\* let x = 1 \n while c { b }, with 0..MaxNewlines newlines around b.
InitWhile ==
    \E c \in WhileConditions, b \in WhileBodies, k \in 0..MaxNewlines :
        Start(<<Token.Let, Identifier("x"), Token.Eq, Int(1), Token.Newline,
                Token.While>> \o c.tokens \o <<Token.LBrace>> \o Newlines(k)
                  \o b.tokens \o Newlines(k) \o <<Token.RBrace, Token.EOF>>,
              <<"while", c.name, b.name>>)

InitFlow == InitIf \/ InitMain \/ InitWhile

SpecFlow == InitFlow /\ [][Next]_vars

\* The phi instructions of the module, as <<block, instruction>>.
Phis(cg) ==
    UNION {{<<bb, cg.blocks[bb].insts[i]>> :
                i \in {j \in 1..Len(cg.blocks[bb].insts) :
                          cg.blocks[bb].insts[j][1] = "phi"}} :
           bb \in 1..Len(cg.blocks)}

\* C12: lowering If(c, t, Some(e)) either aborts or finds that both arms gave
\* Values of the same tag: no phi of a completed lowering merges two values of
\* different types.
C12_IfArmsAgreeOrAbort ==
    (input[1] = "if_else" /\ pc = "generated")
        => \A phi \in Phis(codegen) : phi[2][3][1][2] = phi[2][4][1][2]

\* `if true { 1 } else { 2.0 }` has been lowered to a phi of type i32 that
\* merges the i32 constant 1 and the f64 constant 2.
C12_Witness ==
    /\ input = <<"if_else", "int", "float">>
    /\ pc = "generated"
    /\ \E phi \in Phis(codegen) :
          /\ phi[2][2] = reg(int_type, 1)
          /\ phi[2][3][1] = const(int_type, 1)
          /\ phi[2][4][1] = const(float_type, 2)

\* The positions of the terminators (ret, br, condbr) of a block.
Terminators(bb) ==
    {i \in 1..Len(bb.insts) : bb.insts[i][1] \in {"ret", "br", "condbr"}}

\* C13: after generate_llvm_ir, the block in which the lowering of main ended
\* holds exactly one terminator, a return, as its last instruction: the
\* implicit `return 0` is not appended after a top-level `return e`.
C13_MainEndsWithOneReturn ==
    pc = "generated"
        => /\ Terminators(codegen.blocks[codegen.builder])
                  = {Len(codegen.blocks[codegen.builder].insts)}
           /\ codegen.blocks[codegen.builder]
                  .insts[Len(codegen.blocks[codegen.builder].insts)][1] = "ret"

\* `return 1` has been lowered to a body of main with two returns.
C13_Witness ==
    /\ input = <<"main", <<<<Token.Return, Int(1)>>>>>>
    /\ pc = "generated"
    /\ codegen.blocks[1].insts = <<<<"ret", const(int_type, 1)>>,
                                   <<"ret", const(int_type, 0)>>>>

\* The last instruction of a block; <<"none">> for an empty block.
LastInst(bb) == IF bb.insts = <<>> THEN <<"none">> ELSE bb.insts[Len(bb.insts)]

\* The block bb holds the evaluation of the operand v: v is a constant, or the
\* instruction that defines the register v is in bb.
HoldsEvaluation(bb, v) ==
    \/ v[1] = "const"
    \/ \E i \in 1..Len(bb.insts) :
           /\ bb.insts[i][1] \notin {"store", "br", "condbr", "ret"}
           /\ bb.insts[i][2] = v

\* C19: after lowering `while c { b }` from the body P of main (block 1, the
\* cond block is block 2): P ends with a branch to cond; the conditional
\* branch on the value of c to (loop, end) is the last instruction of the
\* block that holds the evaluation of c; the block in which b ended ends with
\* a branch back to cond; the builder is at the new end block, which is empty
\* until main's `ret` is built into it; and the While yields Int zero.
C19_WhileBlocks ==
    (input[1] = "while" /\ pc \notin {"new", "parsed"})
        => /\ pc = "generated"
           /\ LastInst(codegen.blocks[1]) = <<"br", 2>>
           /\ codegen.blocks[2].name = "while_cond"
           /\ \E k \in 2..Len(codegen.blocks) :
                  /\ LastInst(codegen.blocks[k])[1] = "condbr"
                  /\ LastInst(codegen.blocks[k])[4] = codegen.builder
                  /\ codegen.blocks[LastInst(codegen.blocks[k])[3]].name
                         = "while_loop"
                  /\ HoldsEvaluation(codegen.blocks[k],
                                     LastInst(codegen.blocks[k])[2])
                  /\ \E e \in LastInst(codegen.blocks[k])[3]
                                 ..(codegen.builder - 1) :
                         /\ LastInst(codegen.blocks[e]) = <<"br", 2>>
                         /\ Terminators(codegen.blocks[e])
                                = {Len(codegen.blocks[e].insts)}
           /\ codegen.builder = Len(codegen.blocks)
           /\ codegen.blocks[codegen.builder].name = "while_end"
           /\ codegen.blocks[codegen.builder].insts
                  = <<<<"ret", const(int_type, 0)>>>>
           /\ value = Value_Int(const(int_type, 0))

\* `while if x < 3 { true } else { false } { 1 }` has been lowered: the cond
\* block holds the conditional branch of the if followed by the one of the
\* while, and the if_end block, which holds the phi, has no terminator.
C19_Witness ==
    /\ pc = "generated"
    /\ input = <<"while", "if_else", "int">>
    /\ Cardinality(Terminators(codegen.blocks[2])) = 2
    /\ LastInst(codegen.blocks[2])[1] = "condbr"
    /\ LastInst(codegen.blocks[2])[2] = LastInst(codegen.blocks[5])[2]
    /\ LastInst(codegen.blocks[5])[1] = "phi"

\* The blocks that hold an unconditional branch to the block bb.
BranchesInto(cg, bb) ==
    {k \in 1..Len(cg.blocks) :
        \E i \in 1..Len(cg.blocks[k].insts) : cg.blocks[k].insts[i] = <<"br", bb>>}

\* C20: the two incoming edges of the phi of an if with else name exactly the
\* blocks that hold the unconditional branches into `if_end`, the blocks in
\* which the lowering of the arms ended, also when an arm contains if or
\* while nodes.
C20_PhiNamesArmEndBlocks ==
    pc = "generated"
        => \A phi \in Phis(codegen) :
               /\ codegen.blocks[phi[1]].name = "if_end"
               /\ {phi[2][3][2], phi[2][4][2]} = BranchesInto(codegen, phi[1])
               /\ phi[2][3][2] # phi[2][4][2]

\* `if true { if false { 1 } else { 2 } } else { while false { 1 } }` has been
\* lowered: the phi of the outer if, in block 4, names the if_end of the
\* nested if (block 7) and the while_end of the nested while (block 10).
C20_Witness ==
    /\ pc = "generated"
    /\ input = <<"if_else", "if_else", "while">>
    /\ codegen.blocks[2].name = "then" /\ codegen.blocks[3].name = "else"
    /\ codegen.blocks[7].name = "if_end" /\ codegen.blocks[10].name = "while_end"
    /\ \E phi \in Phis(codegen) :
          phi[1] = 4 /\ phi[2][3][2] = 7 /\ phi[2][4][2] = 10

\* The blocks of the module whose instructions are not: any number of
\* instructions that are no terminator, then one terminator of `kinds`.
IllFormedBlocks(cg, bbs, kinds) ==
    {bb \in bbs :
        \/ Terminators(cg.blocks[bb]) # {Len(cg.blocks[bb].insts)}
        \/ cg.blocks[bb].insts[Len(cg.blocks[bb].insts)][1] \notin kinds}

\* C28: after lowering a program of statements, ifs, whiles and expressions
\* without a Return, every block but the one the builder is positioned at
\* holds exactly one terminator, a branch or a conditional branch, as its last
\* instruction, and the current block held none: the `ret` that
\* generate_llvm_ir appends is its only one.  This holds also when the condition
\* of a while is an if with an else.
C28_OneTerminatorPerBlock ==
    (input[1] \in {"if_else", "while"} /\ pc = "generated")
        => /\ IllFormedBlocks(codegen, (1..Len(codegen.blocks)) \ {codegen.builder},
                              {"br", "condbr"}) = {}
           /\ IllFormedBlocks(codegen, {codegen.builder}, {"ret"}) = {}

\* `let x = 1 \n while if x < 3 { true } else { false } { 1 }` has been
\* lowered: the block of the condition holds two terminators, and the block in
\* which the if of the condition ended, which is not the current one, holds
\* none.
C28_Witness ==
    /\ pc = "generated"
    /\ input = <<"while", "if_else", "int">>
    /\ \E bb \in 1..Len(codegen.blocks) :
          /\ codegen.blocks[bb].name = "while_cond"
          /\ Cardinality(Terminators(codegen.blocks[bb])) = 2
    /\ \E bb \in (1..Len(codegen.blocks)) \ {codegen.builder} :
          /\ codegen.blocks[bb].name = "if_end"
          /\ Terminators(codegen.blocks[bb]) = {}
(***************************************************************************)
(* SpecData: array literals of 0..MaxElements elements of every Value tag, *)
(* with or without the declaration of the void function f that the         *)
(* element `f()` calls; `let a = <declaration> \n a = [10, 20, 30] \n     *)
(* print(a[i])`; `let x = v \n x = e` with v and e of every tag; two or     *)
(* three distinct one-instruction expressions as call arguments,           *)
(* statements or operands; `let x = v \n x[i] = e` with v of every tag.     *)
(***************************************************************************)
MaxElements == 2

ArrayElements ==
    { <<Int(1)>>, <<Float(2)>>, <<Bool(TRUE)>>, <<Str("s")>>, <<Char("c")>>,
      <<Token.LBracket, Int(1), Token.RBracket>>,
      <<Identifier("f"), Token.LParen, Token.RParen>> }

\* fn f() { 1 }
DeclareF ==
    <<Token.Fn, Identifier("f"), Token.LParen, Token.RParen, Token.LBrace,
      Int(1), Token.RBrace, Token.Newline>>

\* The elements from the i-th on, separated by commas.
RECURSIVE ElementTokens(_, _)
ElementTokens(es, i) ==
    IF i > Len(es) THEN <<>>
    ELSE es[i] \o (IF i < Len(es) THEN <<Token.Comma>> ELSE <<>>)
             \o ElementTokens(es, i + 1)

InitArray ==
    \E n \in 0..MaxElements : \E es \in [1..n -> ArrayElements] :
        \E declared \in BOOLEAN :
            Start((IF declared THEN DeclareF ELSE <<>>)
                      \o <<Token.LBracket>> \o ElementTokens(es, 1)
                      \o <<Token.RBracket, Token.EOF>>,
                  <<"array", es, declared>>)

\* An array a is declared, assigned [10, 20, 30] and indexed; the element is
\* printed or is the value of the program.
ArrayDeclarations ==
    { [name |-> "type",
       tokens |-> <<Ty("Int"), Token.LBracket, Int(3), Token.RBracket>>],
      [name |-> "literal",
       tokens |-> <<Token.LBracket, Int(0), Token.Comma, Int(0), Token.Comma,
                    Int(0), Token.RBracket>>] }

InitIndexed ==
    \E d \in ArrayDeclarations, i \in 0..2, printed \in BOOLEAN :
        Start(<<Token.Let, Identifier("a"), Token.Eq>> \o d.tokens
                  \o <<Token.Newline, Identifier("a"), Token.Eq, Token.LBracket,
                       Int(10), Token.Comma, Int(20), Token.Comma, Int(30),
                       Token.RBracket, Token.Newline>>
                  \o (IF printed THEN <<Identifier("print"), Token.LParen>>
                      ELSE <<>>)
                  \o <<Identifier("a"), Token.LBracket, Int(i), Token.RBracket>>
                  \o (IF printed THEN <<Token.RParen>> ELSE <<>>)
                  \o <<Token.EOF>>,
              <<"indexed", d.name, i, printed>>)

\* A value of each tag that a variable can hold.
AssignValues ==
    { [tag |-> "Int", tokens |-> <<Int(1)>>],
      [tag |-> "Float", tokens |-> <<Float(2)>>],
      [tag |-> "Bool", tokens |-> <<Bool(TRUE)>>],
      [tag |-> "Char", tokens |-> <<Char("c")>>],
      [tag |-> "Str", tokens |-> <<Str("s")>>],
      [tag |-> "Array", tokens |-> <<Token.LBracket, Int(1), Token.RBracket>>] }

\* let x = v \n x = e
InitAssign ==
    \E v \in AssignValues, e \in AssignValues :
        Start(<<Token.Let, Identifier("x"), Token.Eq>> \o v.tokens
                  \o <<Token.Newline, Identifier("x"), Token.Eq>> \o e.tokens
                  \o <<Token.EOF>>,
              <<"assign", v.tag, e.tag>>)

\* Parenthesized Bool expressions that are lowered to one icmp each, told
\* apart by the predicate and the operands of the icmp.
Markers ==
    { [tokens |-> <<Token.LParen, Token.Not, Bool(TRUE), Token.RParen>>,
       icmp |-> <<"EQ", const(bool_type, 1), const(bool_type, 0)>>],
      [tokens |-> <<Token.LParen, Token.Not, Bool(FALSE), Token.RParen>>,
       icmp |-> <<"EQ", const(bool_type, 0), const(bool_type, 0)>>],
      [tokens |-> <<Token.LParen, Int(1), Token.Lt, Int(2), Token.RParen>>,
       icmp |-> <<"SLT", const(int_type, 1), const(int_type, 2)>>] }

MaxMarkers == 3

\* How the markers of a program are put together: the arguments of a call of
\* print, statements, or the operands of a binary operator.
OrderKinds ==
    { [name |-> "call", open |-> <<Identifier("print"), Token.LParen>>,
       between |-> <<Token.Comma>>, close |-> <<Token.RParen>>],
      [name |-> "statements", open |-> <<>>, between |-> <<Token.Newline>>,
       close |-> <<>>],
      [name |-> "binary", open |-> <<>>, between |-> <<Token.And>>, close |-> <<>>],
      [name |-> "binary", open |-> <<>>, between |-> <<Token.Or>>, close |-> <<>>],
      [name |-> "binary", open |-> <<>>, between |-> <<Token.EqEq>>, close |-> <<>>],
      [name |-> "binary", open |-> <<>>, between |-> <<Token.Neq>>, close |-> <<>>] }

\* The markers from the i-th on, with `between` between them.
RECURSIVE MarkerTokens(_, _, _)
MarkerTokens(ms, between, i) ==
    IF i > Len(ms) THEN <<>>
    ELSE ms[i].tokens \o (IF i < Len(ms) THEN between ELSE <<>>)
             \o MarkerTokens(ms, between, i + 1)

\* 2..MaxMarkers distinct markers in every order, put together in every way.
InitOrder ==
    \E k \in OrderKinds : \E n \in 2..MaxMarkers :
        \E ms \in {s \in [1..n -> Markers] :
                       \A i, j \in 1..n : i # j => s[i] # s[j]} :
            Start(k.open \o MarkerTokens(ms, k.between, 1) \o k.close
                      \o <<Token.EOF>>,
                  <<"order", k.name, [i \in 1..n |-> ms[i].icmp], k.between>>)

\* let x = v \n x[i] = e
InitIndexAssign ==
    \E v \in AssignValues, i \in 0..1, e \in {Int(5), Char("d")} :
        Start(<<Token.Let, Identifier("x"), Token.Eq>> \o v.tokens
                  \o <<Token.Newline, Identifier("x"), Token.LBracket, Int(i),
                       Token.RBracket, Token.Eq, e, Token.EOF>>,
              <<"index_assign", v.tag, i, e>>)

InitData ==
    InitArray \/ InitIndexed \/ InitAssign \/ InitOrder \/ InitIndexAssign

SpecData == InitData /\ [][Next]_vars

\* C14: lowering the empty array literal aborts with the "invalid array type"
\* fatal error, and no lowering yields an Array Value of length 0.
C14_EmptyArrayAborts ==
    /\ (input[1] = "array" /\ input[2] = <<>> /\ pc \notin {"new", "parsed"})
           => (pc = "codegen_panic" /\ value = <<"panic", "invalid array type">>)
    /\ pc = "generated" => ~(value[1] = "Array" /\ value[4] = 0)

\* `[]` has been lowered to an Array Value of element type Int and length 0.
C14_Witness ==
    /\ input = <<"array", <<>>, FALSE>>
    /\ ast = Node_Statements(<<Node_Array(<<>>)>>)
    /\ pc = "generated"
    /\ value = Value_Array(reg("ptr", 1), "Int", 0)

\* The instructions of the module.
Insts(cg) ==
    UNION {{cg.blocks[bb].insts[i] : i \in 1..Len(cg.blocks[bb].insts)} :
           bb \in 1..Len(cg.blocks)}

\* The operand v is loaded from index i of an array that [10, 20, 30] was
\* stored into.
LoadedFromAssigned(cg, v, i) ==
    \E load \in Insts(cg), gep \in Insts(cg), store \in Insts(cg) :
        /\ load[1] = "load" /\ load[2] = v /\ load[3] = gep[2]
        /\ gep[1] = "gep" /\ gep[4] = const(int_type, i) /\ gep[3] = store[2]
        /\ store[1] = "store" /\ store[3][1] = "const"
        /\ store[3][3] = <<const(int_type, 10), const(int_type, 20),
                           const(int_type, 30)>>

\* C16: `let a = int[3] \n a = [10, 20, 30] \n print(a[1])` parses and lowers
\* without a fatal error, and the value passed to print is the element loaded
\* from index 1 of the assigned array.
C16_ArrayProgramPrintsElement ==
    (input = <<"indexed", "type", 1, TRUE>> /\ pc \notin {"new", "parsed"})
        => /\ pc = "generated"
           /\ \E c \in Insts(codegen) :
                  /\ c[1] = "call" /\ c[3] = "printf" /\ Len(c[4]) = 2
                  /\ LoadedFromAssigned(codegen, c[4][2], 1)

\* The program has been parsed to a Let of a Type node, and lowering it has
\* ended in the `unimplemented!()` arm of visit before any instruction.
C16_Witness ==
    /\ pc = "codegen_panic"
    /\ input = <<"indexed", "type", 1, TRUE>>
    /\ ast[2][1] = Node_Let("a", Node_Type(Type_Array("Int", 3)))
    /\ value = <<"panic", "unimplemented">>
    /\ codegen.blocks[1].insts = <<>>

\* C17: lowering `x = e` where the tag of e differs from the declared Type of
\* the slot of x aborts with a fatal error and emits no store into the slot
\* of x (the slot holds the store of `let x = v` only, which a Str or an Array
\* does not need).
C17_AssignmentTypeMismatchAborts ==
    (input[1] = "assign" /\ input[2] # input[3] /\ pc \notin {"new", "parsed"})
        => /\ pc = "codegen_panic"
           /\ Cardinality(StoresInto(codegen, "body", SlotOfX(codegen)))
                  = IF input[2] \in {"Str", "Array"} THEN 0 ELSE 1

\* `let x = 1 \n x = 2.0` has been lowered: the slot of x, declared Int, got
\* the store of the f64 constant 2.
C17_Witness ==
    /\ pc = "generated"
    /\ input = <<"assign", "Int", "Float">>
    /\ lookup_variable(codegen.scope, "x", 1)[2][2] = Type_Scalar("Int")
    /\ value = Value_Float(const(float_type, 2))
    /\ codegen.blocks[1].insts[3] = <<"store", SlotOfX(codegen), const(float_type, 2)>>

\* The positions, in the body of main, of the icmp of a marker, and of the
\* instructions that consume the values of the markers.
MarkerPositions(cg, icmp) ==
    {i \in 1..Len(cg.blocks[1].insts) :
        /\ cg.blocks[1].insts[i][1] = "icmp"
        /\ SubSeq(cg.blocks[1].insts[i], 3, 5) = icmp}

ConsumerPositions(cg) ==
    {i \in 1..Len(cg.blocks[1].insts) :
        cg.blocks[1].insts[i][1] \in {"call", "and", "or", "xor", "not"}}

\* C18: IR is emitted in program order.  The arguments of a call are lowered
\* left to right and before the call instruction, statements top to bottom,
\* and both operands of a binary operator, `and` and `or` included, are
\* lowered, the left one first and both before the operator's instruction.
C18_ProgramOrder ==
    (input[1] = "order" /\ pc \notin {"new", "parsed"})
        => /\ pc = "generated"
           /\ \A i \in 1..Len(input[3]) :
                  Cardinality(MarkerPositions(codegen, input[3][i])) = 1
           /\ \A i, j \in 1..Len(input[3]) :
                  i < j => \A p \in MarkerPositions(codegen, input[3][i]) :
                               \A q \in MarkerPositions(codegen, input[3][j]) : p < q
           /\ input[2] # "statements" => ConsumerPositions(codegen) # {}
           /\ \A i \in 1..Len(input[3]) :
                  \A p \in MarkerPositions(codegen, input[3][i]) :
                      \A q \in ConsumerPositions(codegen) : p < q

\* `(1 < 2) and (not true) and (not false)` has been lowered to the three icmp in
\* this order, followed by the two `and`.
C18_Witness ==
    /\ pc = "generated"
    /\ input[1] = "order" /\ input[2] = "binary" /\ input[4] = <<Token.And>>
    /\ Len(codegen.blocks[1].insts) = 6
    /\ codegen.blocks[1].insts[1][3] = "SLT"
    /\ codegen.blocks[1].insts[2][4] = const(bool_type, 1)
    /\ codegen.blocks[1].insts[3][4] = const(bool_type, 0)
    /\ codegen.blocks[1].insts[4][1] = "and"
    /\ codegen.blocks[1].insts[5][1] = "and"

\* The instructions of the module with the opcode `opcode`.
InstsOf(cg, opcode) == {inst \in Insts(cg) : inst[1] = opcode}

\* C21: lowering `x[i] = e` where x is neither a Str nor an Array aborts with
\* a fatal error: no GEP on the slot of x and no store besides the one of
\* `let x = v` are emitted.
C21_IndexAssignNeedsArray ==
    (input[1] = "index_assign" /\ input[2] \notin {"Str", "Array"}
         /\ pc \notin {"new", "parsed"})
        => /\ pc = "codegen_panic"
           /\ InstsOf(codegen, "gep") = {}
           /\ Cardinality(InstsOf(codegen, "store")) = 1

\* `let x = 1 \n x[0] = 5` has been lowered to a GEP on the i32 slot of x and
\* a store of 5 through it.
C21_Witness ==
    /\ pc = "generated"
    /\ input = <<"index_assign", "Int", 0, Int(5)>>
    /\ lookup_variable(codegen.scope, "x", 1)[2][2] = Type_Scalar("Int")
    /\ codegen.blocks[1].insts[3]
           = <<"gep", reg("ptr", 2), SlotOfX(codegen), const(int_type, 0)>>
    /\ codegen.blocks[1].insts[4]
           = <<"store", reg("ptr", 2), const(int_type, 5)>>
(***************************************************************************)
(* SpecFn: function declarations.  `fn f(a: T) { b }` with T every Type,   *)
(* the arrays of void included, and b a use of the parameter; array        *)
(* literals with an element that is the call of a void function;           *)
(* `fn f(args) ret { b }` with b containing if and while nodes.            *)
(***************************************************************************)
ParamTypes ==
    { [ty |-> Type_Scalar("Int"), tokens |-> <<Ty("Int")>>],
      [ty |-> Type_Scalar("Float"), tokens |-> <<Ty("Float")>>],
      [ty |-> Type_Scalar("Bool"), tokens |-> <<Ty("Bool")>>],
      [ty |-> Type_Scalar("Str"), tokens |-> <<Ty("Str")>>],
      [ty |-> Type_Scalar("Char"), tokens |-> <<Ty("Char")>>],
      [ty |-> Type_Void, tokens |-> <<Ty("Void")>>],
      [ty |-> Type_Array("Int", 2),
       tokens |-> <<Ty("Int"), Token.LBracket, Int(2), Token.RBracket>>],
      [ty |-> Type_Array("Void", 2),
       tokens |-> <<Ty("Void"), Token.LBracket, Int(2), Token.RBracket>>],
      [ty |-> Type_Array("Void", 1),
       tokens |-> <<Ty("Void"), Token.LBracket, Int(1), Token.RBracket>>] }

ParamUses ==
    { [name |-> "none", tokens |-> <<Int(1)>>],
      [name |-> "read", tokens |-> <<Identifier("a")>>],
      [name |-> "index",
       tokens |-> <<Identifier("a"), Token.LBracket, Int(0), Token.RBracket>>] }

\* fn f(a: T) { b }
InitParam ==
    \E t \in ParamTypes, b \in ParamUses :
        Start(<<Token.Fn, Identifier("f"), Token.LParen, Identifier("a"),
                Token.Colon>> \o t.tokens \o <<Token.RParen, Token.LBrace>>
                  \o b.tokens \o <<Token.RBrace, Token.EOF>>,
              <<"param", t.ty, b.name>>)

\* fn g() { 1 } \n [.., g(), ..]
VoidElementArrays ==
    { <<Identifier("g"), Token.LParen, Token.RParen>>,
      <<Int(1), Token.Comma, Identifier("g"), Token.LParen, Token.RParen>>,
      <<Identifier("g"), Token.LParen, Token.RParen, Token.Comma, Int(1)>> }

InitVoidElement ==
    \E es \in VoidElementArrays :
        Start(<<Token.Fn, Identifier("g"), Token.LParen, Token.RParen,
                Token.LBrace, Int(1), Token.RBrace, Token.Newline,
                Token.LBracket>> \o es \o <<Token.RBracket, Token.EOF>>,
              <<"void_element", es>>)

\* The bodies of the functions of InitFnBody.
FnBodies ==
    { [name |-> "int", tokens |-> <<Int(1)>>],
      [name |-> "if",
       tokens |-> <<Token.If, Bool(TRUE), Token.LBrace, Int(1), Token.RBrace>>],
      [name |-> "if_else",
       tokens |-> <<Token.If, Bool(FALSE), Token.LBrace, Int(1), Token.RBrace,
                    Token.Else, Token.LBrace, Int(2), Token.RBrace>>],
      [name |-> "while",
       tokens |-> <<Token.While, Bool(FALSE), Token.LBrace, Int(1), Token.RBrace>>],
      [name |-> "while_if",
       tokens |-> <<Token.While, Bool(FALSE), Token.LBrace, Token.If, Bool(TRUE),
                    Token.LBrace, Int(1), Token.RBrace, Token.RBrace>>] }

FnSignatures ==
    { [name |-> "void", args |-> <<>>, ret |-> <<>>],
      [name |-> "int", args |-> <<>>, ret |-> <<Token.Colon, Ty("Int")>>],
      [name |-> "void_arg",
       args |-> <<Identifier("a"), Token.Colon, Ty("Int")>>, ret |-> <<>>],
      [name |-> "int_arg",
       args |-> <<Identifier("a"), Token.Colon, Ty("Int")>>,
       ret |-> <<Token.Colon, Ty("Int")>>] }

\* fn f(args) ret { b }
InitFnBody ==
    \E s \in FnSignatures, b \in FnBodies :
        Start(<<Token.Fn, Identifier("f"), Token.LParen>> \o s.args
                  \o <<Token.RParen>> \o s.ret \o <<Token.LBrace>> \o b.tokens
                  \o <<Token.RBrace, Token.EOF>>,
              <<"fn_body", s.name, b.name>>)

InitFn == InitParam \/ InitVoidElement \/ InitFnBody

SpecFn == InitFn /\ [][Next]_vars

\* The variables of Type Array of Void that the scope chain records.
VoidArrayVariables(cg) ==
    UNION {{<<frame, i>> : i \in {j \in 1..Len(cg.scope[frame].variables) :
                  /\ cg.scope[frame].variables[j][2][2][1] = "Array"
                  /\ cg.scope[frame].variables[j][2][2][2] = "Void"}} :
           frame \in 1..Len(cg.scope)}

\* C23: codegen never creates an Array Value or records a variable of Type
\* Array whose element tag is Void: an array literal with a Void element and a
\* function with a parameter declared `void[n]` abort with a fatal error
\* before the value or the scope entry exists.
C23_NoVoidArrays ==
    /\ VoidArrayVariables(codegen) = {}
    /\ pc = "generated" => ~(value[1] = "Array" /\ value[3] = "Void")
    /\ (input[1] = "void_element" /\ pc \notin {"new", "parsed"})
           => (pc = "codegen_panic" /\ value = <<"panic", "invalid array type">>)
    /\ (input[1] = "param" /\ input[2][1] = "Array" /\ input[2][2] = "Void"
            /\ pc \notin {"new", "parsed"})
           => (pc = "codegen_panic" /\ value # <<"panic", "can't have a void array">>)

\* `fn f(a: void[2]) { a[0] }`: the parameter has been recorded in the scope of
\* f with the Type Array(Void, 2), and the lowering of `a[0]` has aborted on
\* the Array Value of element tag Void that reading `a` gave.
C23_Witness ==
    /\ pc = "codegen_panic"
    /\ input = <<"param", Type_Array("Void", 2), "index">>
    /\ value = <<"panic", "can't have a void array">>
    /\ Len(codegen.scope) = 2
    /\ codegen.scope[2].variables[1][1] = "a"
    /\ codegen.scope[2].variables[1][2][2] = Type_Array("Void", 2)

\* The blocks appended to the function `function`.
BlocksOf(cg, function) ==
    {k \in 1..Len(cg.blocks) : cg.blocks[k].function = function}

\* C27: every basic block created while lowering the body of the user
\* function f is appended to f; the enclosing function main keeps its one
\* block.
C27_BodyBlocksBelongToFunction ==
    (input[1] = "fn_body" /\ pc \notin {"new", "parsed"})
        => /\ pc = "generated"
           /\ BlocksOf(codegen, "main") = {1}
           /\ BlocksOf(codegen, "f") = 2..Len(codegen.blocks)

\* `fn f() { if true { 1 } }` has been lowered: the body block of f is block
\* 2, and the `then` and `end` blocks of the if are blocks of main.
C27_Witness ==
    /\ pc = "generated"
    /\ input = <<"fn_body", "void", "if">>
    /\ BlocksOf(codegen, "f") = {2}
    /\ BlocksOf(codegen, "main") = {1, 3, 4}
    /\ codegen.blocks[3].name = "then" /\ codegen.blocks[4].name = "end"
(***************************************************************************)
(* SpecList: the arguments of a call `f(` and the elements of an array     *)
(* `[`, as every sequence of at most MaxListItems expressions and commas,  *)
(* followed by the terminator or by the end of the input.                  *)
(***************************************************************************)
MaxListItems == 4

ListItems ==
    { [comma |-> TRUE, token |-> Token.Comma],
      [comma |-> FALSE, token |-> Identifier("a")],
      [comma |-> FALSE, token |-> Int(1)] }

ListKinds ==
    { [name |-> "Call", open |-> <<Identifier("f"), Token.LParen>>,
       close |-> Token.RParen],
      [name |-> "Array", open |-> <<Token.LBracket>>, close |-> Token.RBracket] }

InitList ==
    \E k \in ListKinds : \E n \in 0..MaxListItems : \E items \in [1..n -> ListItems] :
        \E terminated \in BOOLEAN :
            Start(k.open \o [i \in 1..n |-> items[i].token]
                      \o (IF terminated THEN <<k.close>> ELSE <<>>)
                      \o <<Token.EOF>>,
                  <<"list", k.name, [i \in 1..n |-> items[i].token], terminated>>)

SpecList == InitList /\ [][Next]_vars

\* e1 , ... , en with at most one comma after en: the expressions are at the
\* odd positions and the commas at the even ones.
WellSeparated(items) ==
    \A i \in 1..Len(items) : (items[i] = Token.Comma) <=> (i % 2 = 0)

\* The nodes of the expressions e1..en of well separated items (the token of
\* an identifier or of an int and its node are the same tuple).
RECURSIVE ListNodes(_, _)
ListNodes(items, i) ==
    IF i > Len(items) THEN <<>>
    ELSE <<items[i]>> \o ListNodes(items, i + 2)

\* C24: list(end), called just after the opening delimiter, returns [e1..en]
\* and leaves the cursor just past the terminator for `end`, `e1, .., en end`
\* and `e1, .., en, end`; it aborts when two expressions are not separated by
\* a comma, when two commas are adjacent (or a comma comes first), and when
\* the input ends before the terminator.
C24_ListSeparators ==
    (input[1] = "list" /\ pc # "new")
        => IF WellSeparated(input[3]) /\ input[4]
           THEN /\ pc # "parse_panic"
                /\ ast = Node_Statements(<<
                       IF input[2] = "Call"
                       THEN Node_Call("f", ListNodes(input[3], 1))
                       ELSE Node_Array(ListNodes(input[3], 1))>>)
                /\ parser.index = Len(tokens) - 1
                /\ parser.token = Token.EOF
           ELSE pc = "parse_panic"

\* `f(a, 1,)` has been parsed to Call(f, [a, 1]) with the cursor on the EOF
\* that follows the `)`.
C24_Witness ==
    /\ pc = "parsed"
    /\ input = <<"list", "Call", <<Identifier("a"), Token.Comma, Int(1), Token.Comma>>,
                 TRUE>>
    /\ ast = Node_Statements(<<Node_Call("f", <<Node_Identifier("a"), Node_Int(1)>>)>>)
    /\ parser.index = 7
(***************************************************************************)
(* SpecTerm: the loops of the parser.  Each input opens a construct whose  *)
(* parsing loops (the statements of a program, the lines after an if, the  *)
(* arguments of a call, the parameters of a fn) and goes on with every     *)
(* sequence of at most MaxTail tokens of the alphabet of the construct     *)
(* that holds at most MaxIfs `if` tokens.                                  *)
(* The driver is one thread that calls Parser::parse as soon as the parser *)
(* is constructed, so the step that takes pc from "new" is weakly fair: it *)
(* is the step Parse, the only one of Next that is possible there.         *)
(***************************************************************************)
MaxTail == 4
MaxIfs == 2

LoopInputs ==
    { [name |-> "statements", open |-> <<>>,
       alphabet |-> {Token.Newline, Identifier("a"), Token.If, Token.Colon,
                     Token.LBrace, Token.RBrace}],
      [name |-> "if", open |-> <<Token.If, Identifier("a"), Token.Colon, Identifier("a")>>,
       alphabet |-> {Token.Newline, Identifier("a"), Token.If, Token.Colon,
                     Token.Else, Token.RBrace}],
      [name |-> "list", open |-> <<Identifier("f"), Token.LParen>>,
       alphabet |-> {Token.Newline, Identifier("a"), Token.Comma, Token.RParen,
                     Int(1), Token.Add}],
      [name |-> "fn", open |-> <<Token.Fn, Identifier("f"), Token.LParen, Identifier("a"),
                                 Token.Colon, Ty("Int")>>,
       alphabet |-> {Identifier("a"), Token.Colon, Ty("Int"), Token.Comma,
                     Token.RParen, Token.LBrace}] }

Tails(k) ==
    UNION {{tail \in [1..n -> k.alphabet] :
                Cardinality({i \in 1..n : tail[i] = Token.If}) <= MaxIfs} :
           n \in 0..MaxTail}

InitTerm ==
    \E k \in LoopInputs : \E tail \in Tails(k) :
        Start(k.open \o tail \o <<Token.EOF>>, <<"loop", k.name, tail>>)

\* What Parse does to pc.
CallParse == pc = "new" /\ pc' \in {"parsed", "parse_panic"}

SpecTerm == InitTerm /\ [][Next]_vars /\ WF_pc(CallParse)

\* C25: Parser::parse terminates on every token vector ending with EOF: no
\* head of a loop of statements, list or fn_expr is evaluated again with the
\* cursor where it was or before (also after the rewind of if_expr), and the
\* call returns or aborts.
C25_ParseTerminates ==
    /\ [](~parser.stalled)
    /\ <>(pc # "new")

\* `if a: a \n \n a \n a`: if_expr rewinds onto the second newline, and the
\* loop of statements iterates twice after it.
C25_Witness ==
    /\ pc = "parsed"
    /\ tokens = <<Token.If, Identifier("a"), Token.Colon, Identifier("a"),
                  Token.Newline, Identifier("a"), Token.Newline, Identifier("a"),
                  Token.EOF>>
    /\ Len(parser.log) = 1
    /\ parser.log[1].newlines = 1
    /\ Len(ast[2]) = 3
    /\ ~parser.stalled

\* The token the cursor of the source reads at a 0-based index.
TokenAt(i) == IF i < Len(tokens) THEN tokens[i + 1] ELSE Token.EOF

\* C30: the cursor of the parser is consistent in every state: `index -= 2` of
\* back has never underflowed, and the current token is tokens[index], or EOF
\* when index is past the end; this holds when parse has returned or aborted
\* and at every return of if_expr, after its rewind.
C30_CursorConsistent ==
    /\ ~parser.underflow
    /\ parser.token = TokenAt(parser.index)
    /\ \A i \in 1..Len(parser.log) :
           /\ parser.log[i].token = TokenAt(parser.log[i].index)
           /\ parser.log[i].start + 3 <= parser.log[i].after_body

\* `if a: a \n a`: if_expr skipped the newline and called back at index 5, and
\* the parser went on to the end of the input.
C30_Witness ==
    /\ pc = "parsed"
    /\ input = <<"loop", "if", <<Token.Newline, Identifier("a")>>>>
    /\ Len(parser.log) = 1
    /\ parser.log[1].newlines = 1 /\ ~parser.log[1].else_found
    /\ parser.log[1].index = 4
    /\ parser.index = 6 /\ parser.token = Token.EOF
====
